---------------------------- MODULE Spec2Model ----------------------------
(***************************************************************************)
(* Model of PDFEditorPro's anchor-based field extraction:                   *)
(*   - OCRTrainerModule.transform_visual_to_pdf_coords (src/modules.py),    *)
(*   - OCRTrainerModule.run_extraction / _find_box_on_pages (native text),  *)
(*   - OCRImageTrainerModule.run_extraction / _find_box_with_ocr            *)
(*     (src/ocr_module.py),                                                 *)
(*   - the template canvas (OCRCanvasWidget) and the trainers' document     *)
(*     list, page navigation, zoom and save_template.                       *)
(* Coordinates are integers (document units, or pixels for OCR tokens);     *)
(* zoom scales and scaled coordinates are exact fractions.                  *)
(* A text is a sequence of words; the empty string is <<>>.                 *)
(***************************************************************************)
EXTENDS Integers, Sequences, FiniteSets, TLC

VARIABLES
    \* ---- geometry transform: one call of transform_visual_to_pdf_coords
    tv_args,        \* [x, y, w, h, page_width, page_height, rotation]
    tv_result,      \* [status, rect]: "pending" before the call
    \* ---- extraction run: inputs, fixed during a run
    module,         \* "native" (OCRTrainerModule) or "ocr" (OCRImageTrainerModule)
    template,       \* the template's label boxes, pages by order_index then boxes
    paths,          \* the documents selected for extraction, in selection order
    ocr_reader,     \* what get_ocr_reader() returns: "reader" or "None"
    \* ---- extraction run: state of run_extraction and of the matcher it calls
    pc,             \* position of the handler; "idle" when none runs
    run_count,      \* number of run_extraction calls started
    doc_i,          \* index in paths of the document being processed
    label_i,        \* index in all_labels of the label being matched
    page_idx,       \* the matcher's page index (0-based, as in the code)
    primary_instances, \* occurrences of the primary anchor on the current page
    cand_i,         \* index in primary_instances of the next candidate
    match,          \* what the matcher returned for (document, label)
    row_data,       \* the row being built for the current document
    result_table,   \* [columns, rows] of the QTableWidget
    extraction_results,     \* self.extraction_results
    extraction_screenshots, \* self.extraction_screenshots (audit records)
    extracted_count,
    message,        \* the last message box shown by run_extraction
    before_run,     \* what the result lists held when the last run was started
    \* ---- template authoring: the OCRCanvasWidget of the module
    objects,        \* the OCRBox objects created so far: id -> [box_type, parent, children]
    boxes,          \* canvas.boxes: the top-level boxes, in creation order
    selected_box,   \* canvas.selected_box: an object id, or 0 for None
    current_mode,   \* canvas.current_mode: "label", "anchor" or "value"
    active_parent_box, \* canvas.active_parent_box: an object id, or 0 for None
    current_rect,   \* canvas.current_rect: TRUE while a rectangle is being drawn
    drag_mode,      \* canvas.drag_mode: "None", "move" or "resize"
    \* ---- trainer module: its document list, page, zoom and saved boxes
    trainer         \* the module's fields, its list widget's current row and
                    \* its canvas's boxes: see InitTrainer

geom_vars == <<tv_args, tv_result>>

input_vars == <<module, template, paths, ocr_reader>>

matcher_vars == <<page_idx, primary_instances, cand_i, match>>

run_vars == <<pc, run_count, doc_i, label_i, row_data, result_table,
              extraction_results, extraction_screenshots, extracted_count, message>>

canvas_vars == <<objects, boxes, selected_box, current_mode, active_parent_box,
                 current_rect, drag_mode>>

vars == <<geom_vars, input_vars, matcher_vars, run_vars, before_run, canvas_vars,
          trainer>>

(***************************************************************************)
(* Bounds of the geometry inputs.                                           *)
(***************************************************************************)
MaxCells == 3

\* grid coordinates: multiples of 10 up to MaxCells * 10
Coord == {10 * i : i \in 0..MaxCells}

\* visual page sizes: page.rect.width x page.rect.height
PageSizes == {10 * i : i \in 2..MaxCells}

ValidRotations == {0, 90, 180, 270}

\* rotation arguments the function can be called with; 45 and 360 reach its
\* final else branch
RotationArgs == ValidRotations \cup {45, 360}

Rect(x, y, w, h) == [x |-> x, y |-> y, width |-> w, height |-> h]

\* normalized rectangles with grid coordinates lying inside a pw x ph page
RectsInPage(pw, ph) ==
    {Rect(x, y, w, h) : x \in Coord, y \in Coord, w \in Coord, h \in Coord} \cap
    {r \in [x : Coord, y : Coord, width : Coord, height : Coord] :
        r.x + r.width <= pw /\ r.y + r.height <= ph}

InsidePage(r, pw, ph) ==
    /\ r.width >= 0 /\ r.height >= 0
    /\ r.x >= 0 /\ r.y >= 0
    /\ r.x + r.width <= pw /\ r.y + r.height <= ph

(***************************************************************************)
(* transform_visual_to_pdf_coords(x, y, w, h, page_width, page_height,      *)
(* rotation): page_width/page_height are the VISUAL page size               *)
(* (page.rect, stored by render_current_page).                              *)
(***************************************************************************)
Mutant_transform_raw_dims(x, y, w, h, page_width, page_height, rotation) ==
    \* plausible bug: the 90/270 branches subtract from the other page dimension
    IF rotation = 0 THEN Rect(x, y, w, h)
    ELSE IF rotation = 90 THEN Rect(y, page_height - x - w, h, w)
    ELSE IF rotation = 180 THEN Rect(page_width - x - w, page_height - y - h, w, h)
    ELSE IF rotation = 270 THEN Rect(page_width - y - h, x, h, w)
    ELSE Rect(x, y, w, h)

Mutant_transform_no_swap(x, y, w, h, page_width, page_height, rotation) ==
    \* plausible bug: the quarter-turn branches keep width and height unswapped
    IF rotation = 0 THEN Rect(x, y, w, h)
    ELSE IF rotation = 90 THEN Rect(y, page_width - x - w, w, h)
    ELSE IF rotation = 180 THEN Rect(page_width - x - w, page_height - y - h, w, h)
    ELSE IF rotation = 270 THEN Rect(page_height - y - h, x, w, h)
    ELSE Rect(x, y, w, h)

transform_visual_to_pdf_coords(x, y, w, h, page_width, page_height, rotation) ==
    IF rotation = 0 THEN Rect(x, y, w, h)
    ELSE IF rotation = 90 THEN Rect(y, page_width - x - w, h, w)
    ELSE IF rotation = 180 THEN Rect(page_width - x - w, page_height - y - h, w, h)
    ELSE IF rotation = 270 THEN Rect(page_height - y - h, x, h, w)
    ELSE Rect(x, y, w, h)

\* the fixture of generate_test_pdf.py: a 90-degree page of visual size 400x500
FixtureArgs ==
    [x |-> 30, y |-> 60, w |-> 200, h |-> 10,
     page_width |-> 400, page_height |-> 500, rotation |-> 90]

GeomArgs ==
    {[x |-> r.x, y |-> r.y, w |-> r.width, h |-> r.height,
      page_width |-> pw, page_height |-> ph, rotation |-> rot] :
        r \in RectsInPage(10 * MaxCells, 10 * MaxCells),
        pw \in PageSizes, ph \in PageSizes, rot \in RotationArgs}

TransformInputs ==
    /\ tv_args \in {a \in GeomArgs :
                      a.x + a.w <= a.page_width /\ a.y + a.h <= a.page_height}
                   \cup {FixtureArgs}
    /\ tv_result = [status |-> "pending", rect |-> Rect(0, 0, 0, 0)]

\* one call of the function; it has no raise statement, so the call returns
TransformCall ==
    /\ tv_result.status = "pending"
    /\ tv_result' = [status |-> "returned",
                     rect |-> transform_visual_to_pdf_coords(
                                 tv_args.x, tv_args.y, tv_args.w, tv_args.h,
                                 tv_args.page_width, tv_args.page_height,
                                 tv_args.rotation)]
    /\ UNCHANGED tv_args
    /\ UNCHANGED <<input_vars, matcher_vars, run_vars, before_run, canvas_vars, trainer>>

(***************************************************************************)
(* Extraction: data.                                                        *)
(*   box   = a LabeledBox row: name, anchor_text, box_type, x, y, width,    *)
(*           height (children only on label boxes)                          *)
(*   page  = a fitz page: rect (visual size), rotation, whether load_page   *)
(*           succeeds, its text runs [text, x, y] in locator order (raw     *)
(*           space; pixels for the OCR module) and its image blocks         *)
(*   doc   = [filename, opens, pages]                                       *)
(***************************************************************************)
MaxPages == 2
MaxDocs == 3
MaxRuns == 2

POSITION_TOLERANCE == 50
OCR_DPI == 300

Box(name, box_type, x, y, w, h) ==
    [name |-> name, anchor_text |-> IF box_type = "anchor" THEN name ELSE <<>>,
     box_type |-> box_type, x |-> x, y |-> y, width |-> w, height |-> h]

LabelBox(name, children) ==
    [name |-> name, box_type |-> "label", children |-> children]

Run(text, x, y) == [text |-> text, x |-> x, y |-> y]

Page(runs, images) ==
    [rect |-> [width |-> 400, height |-> 500], rotation |-> 0, loads |-> TRUE,
     runs |-> runs, images |-> images]

\* fitz.Rect(x0, y0, x1, y1)
FitzRect(x0, y0, x1, y1) == [x0 |-> x0, y0 |-> y0, x1 |-> x1, y1 |-> y1]

Max(a, b) == IF a >= b THEN a ELSE b
Min(a, b) == IF a <= b THEN a ELSE b
Abs(a) == IF a >= 0 THEN a ELSE -a

\* fitz.Rect.is_empty
is_empty(r) == r.x0 >= r.x1 \/ r.y0 >= r.y1

\* fitz.Rect.normalize
normalize(r) ==
    FitzRect(Min(r.x0, r.x1), Min(r.y0, r.y1), Max(r.x0, r.x1), Max(r.y0, r.y1))

\* fitz.Rect.__and__ (intersect): an empty operand is the result
intersect(a, b) ==
    IF is_empty(b) THEN b
    ELSE IF is_empty(a) THEN a
    ELSE FitzRect(Max(a.x0, b.x0), Max(a.y0, b.y0), Min(a.x1, b.x1), Min(a.y1, b.y1))

\* page.rect as a fitz.Rect
page_rect(page) == FitzRect(0, 0, page.rect.width, page.rect.height)

IsPrefix(needle, text) ==
    /\ Len(needle) <= Len(text)
    /\ SubSeq(text, 1, Len(needle)) = needle

\* Python's `a in b` on strings, at word granularity
Contains(text, needle) ==
    \E i \in 1..(Len(text) - Len(needle) + 1) :
        SubSeq(text, i, i + Len(needle) - 1) = needle

\* page.search_for(needle): the runs that start with needle, in locator order
search_for(page, needle) ==
    SelectSeq(page.runs, LAMBDA r : needle # <<>> /\ IsPrefix(needle, r.text))

InClip(r, clip) ==
    clip.x0 <= r.x /\ r.x < clip.x1 /\ clip.y0 <= r.y /\ r.y < clip.y1

RECURSIVE Join(_)
Join(runs) == IF runs = <<>> THEN <<>> ELSE Head(runs).text \o Join(Tail(runs))

\* page.get_text("text", clip=clip).strip()
get_text(page, clip) ==
    Join(SelectSeq(page.runs, LAMBDA r : InClip(r, clip)))

\* page.get_text("blocks", clip=clip) joined: text blocks, and one "<image>"
\* pseudo-text per image block in the clip
get_blocks_text(page, clip) ==
    get_text(page, clip) \o
    (IF \E im \in page.images : InClip(im, clip) THEN <<"<image>">> ELSE <<>>)

(***************************************************************************)
(* run_extraction: the label list and the column headers.                   *)
(***************************************************************************)
label_info(label_box) ==
    [name |-> label_box.name,
     anchors |-> SelectSeq(label_box.children, LAMBDA b : b.box_type = "anchor"),
     values |-> SelectSeq(label_box.children, LAMBDA b : b.box_type = "value")]

Mutant_all_labels_of_keeps_duplicates(tpl) ==
    \* plausible bug: every label box is appended, whatever its name
    [i \in 1..Len(tpl) |-> label_info(tpl[i])]

\* all_labels: one entry per distinct label name, in first-seen order
all_labels_of(tpl) ==
    LET F[i \in 0..Len(tpl)] ==
            IF i = 0 THEN <<>>
            ELSE IF \E j \in 1..Len(F[i - 1]) : F[i - 1][j].name = tpl[i].name
                 THEN F[i - 1]
                 ELSE Append(F[i - 1], label_info(tpl[i]))
    IN F[Len(tpl)]

all_labels == all_labels_of(template)

FilenameColumn == <<"PDF Filename">>
AnchorColumn(name) == <<name, "_Anchor">>
ValueColumn(name) == <<name, "_Value">>

Mutant_columns_of_value_only(labels) ==
    \* plausible bug: the _Anchor column of each label is left out
    LET F[i \in 0..Len(labels)] ==
            IF i = 0 THEN <<FilenameColumn>>
            ELSE F[i - 1] \o <<ValueColumn(labels[i].name)>>
    IN F[Len(labels)]

columns_of(labels) ==
    LET F[i \in 0..Len(labels)] ==
            IF i = 0 THEN <<FilenameColumn>>
            ELSE F[i - 1] \o <<AnchorColumn(labels[i].name), ValueColumn(labels[i].name)>>
    IN F[Len(labels)]

\* the table row built from row_data: row_data.get(col_name, "")
table_row(cols, row) ==
    [i \in 1..Len(cols) |-> IF cols[i] \in DOMAIN row THEN row[cols[i]] ELSE <<>>]

(***************************************************************************)
(* _find_box_on_pages (native text) and _find_box_with_ocr: helpers.        *)
(***************************************************************************)
NoMatch ==
    [page |-> -1, anchor_text |-> <<>>, value_text |-> <<>>,
     value_rect |-> FitzRect(0, 0, 0, 0)]

CurDoc == paths[doc_i]
CurLabel == all_labels[label_i]
CurPage == CurDoc.pages[page_idx + 1]

Mutant_first_value_last(values) ==
    \* plausible bug: the last Value child drives the offset
    values[Len(values)]

\* first_anchor = anchors[0], first_value = values[0]
first_anchor_of(anchors) == anchors[1]
first_value_of(values) == values[1]

Mutant_label_unusable_without_values(info) ==
    \* plausible bug: a label without a Value child is not skipped
    \/ info.anchors = <<>>
    \/ first_anchor_of(info.anchors).name = <<>>

\* native: the matcher's early returns (no anchor, no value, empty anchor name)
label_unusable(info) ==
    \/ info.anchors = <<>>
    \/ info.values = <<>>
    \/ first_anchor_of(info.anchors).name = <<>>

\* OCR: anchor_text, or the name when no anchor_text was stored
anchor_search_text(first_anchor) ==
    IF first_anchor.anchor_text # <<>> THEN first_anchor.anchor_text
    ELSE first_anchor.name

label_unusable_ocr(info) ==
    \/ info.anchors = <<>>
    \/ info.values = <<>>
    \/ anchor_search_text(first_anchor_of(info.anchors)) = <<>>

Mutant_find_primary_instances_first_word_too(page, primary_anchor_text) ==
    \* plausible bug: the first word is searched even when the full text was found
    search_for(page, <<primary_anchor_text[1]>>)

\* page.search_for(primary_anchor_text), falling back to its first word
find_primary_instances(page, primary_anchor_text) ==
    LET full == search_for(page, primary_anchor_text)
    IN IF full # <<>> THEN full
       ELSE search_for(page, <<primary_anchor_text[1]>>)

Mutant_secondary_matches_strict(page, primary_rect, first_anchor, anchor) ==
    \* plausible bug: < instead of <= in the tolerance test
    LET expected_dx == anchor.x - first_anchor.x
        expected_dy == anchor.y - first_anchor.y
        sec_instances == search_for(page, anchor.name)
    IN \E k \in 1..Len(sec_instances) :
          /\ Abs((sec_instances[k].x - primary_rect.x) - expected_dx) < POSITION_TOLERANCE
          /\ Abs((sec_instances[k].y - primary_rect.y) - expected_dy) < POSITION_TOLERANCE

\* one secondary anchor has an occurrence at its learned offset from primary_rect
secondary_matches(page, primary_rect, first_anchor, anchor) ==
    LET expected_dx == anchor.x - first_anchor.x
        expected_dy == anchor.y - first_anchor.y
        sec_instances == search_for(page, anchor.name)
    IN \E k \in 1..Len(sec_instances) :
          /\ Abs((sec_instances[k].x - primary_rect.x) - expected_dx) <= POSITION_TOLERANCE
          /\ Abs((sec_instances[k].y - primary_rect.y) - expected_dy) <= POSITION_TOLERANCE

Mutant_all_secondary_match_skipped(page, primary_rect, anchors) ==
    \* plausible bug: the secondary anchors are never verified
    TRUE

Mutant_all_secondary_match_first_only(page, primary_rect, anchors) ==
    \* plausible bug: only the first secondary anchor is verified
    \A i \in 2..Min(2, Len(anchors)) :
        anchors[i].name # <<>> =>
            secondary_matches(page, primary_rect, first_anchor_of(anchors), anchors[i])

\* all_secondary_match: every secondary anchor with a non-empty name matches
all_secondary_match(page, primary_rect, anchors) ==
    \A i \in 2..Len(anchors) :
        anchors[i].name # <<>> =>
            secondary_matches(page, primary_rect, first_anchor_of(anchors), anchors[i])

\* the value rectangle: offset of the first value from the first anchor, applied
\* to the occurrence, normalized and clipped to page.rect
value_rect_of(page, primary_rect, first_anchor, first_value) ==
    LET value_dx == first_value.x - first_anchor.x
        value_dy == first_value.y - first_anchor.y
    IN intersect(
           normalize(FitzRect(primary_rect.x + value_dx,
                              primary_rect.y + value_dy,
                              primary_rect.x + value_dx + first_value.width,
                              primary_rect.y + value_dy + first_value.height)),
           page_rect(page))

Mutant_extract_value_text_expanded_first(page, value_rect) ==
    \* plausible bug: the expanded rectangle is read before the value rectangle
    IF is_empty(value_rect) THEN <<>>
    ELSE LET expanded == intersect(FitzRect(value_rect.x0 - 10, value_rect.y0 - 10,
                                            value_rect.x1 + 10, value_rect.y1 + 10),
                                   page_rect(page))
         IN IF get_text(page, expanded) # <<>> THEN get_text(page, expanded)
            ELSE IF get_text(page, value_rect) # <<>> THEN get_text(page, value_rect)
            ELSE get_blocks_text(page, value_rect)

\* text of the value region: clip, then clip expanded by 10, then blocks
extract_value_text(page, value_rect) ==
    IF is_empty(value_rect) THEN <<>>
    ELSE LET text == get_text(page, value_rect)
             expanded == intersect(FitzRect(value_rect.x0 - 10, value_rect.y0 - 10,
                                            value_rect.x1 + 10, value_rect.y1 + 10),
                                   page_rect(page))
         IN IF text # <<>> THEN text
            ELSE IF get_text(page, expanded) # <<>> THEN get_text(page, expanded)
            ELSE get_blocks_text(page, value_rect)

\* OCR: the page raster at OCR_DPI (_page_to_image)
image_width(page) == (page.rect.width * OCR_DPI) \div 72
image_height(page) == (page.rect.height * OCR_DPI) \div 72

\* OCR: the first token that contains the anchor text or is contained in it;
\* <<>> when there is none (anchor_found = None)
ocr_anchor_found(page, needle) ==
    LET words == SelectSeq(page.runs, LAMBDA r : r.text # <<>>)
        hits == {i \in 1..Len(words) :
                    Contains(words[i].text, needle) \/ Contains(needle, words[i].text)}
    IN IF hits = {} THEN <<>>
       ELSE <<words[CHOOSE i \in hits : \A j \in hits : i <= j]>>

\* _ocr_cropped_region: OCR of the crop of the page raster to rect (a QRectF)
ocr_cropped_region(page, rect) ==
    LET x1 == Max(0, rect.x)
        y1 == Max(0, rect.y)
        x2 == Min(image_width(page), rect.x + rect.width)
        y2 == Min(image_height(page), rect.y + rect.height)
    IN IF x2 <= x1 \/ y2 <= y1 \/ ocr_reader # "reader" THEN <<>>
       ELSE get_text(page, FitzRect(x1, y1, x2, y2))

\* pixels at OCR_DPI to points
to_points(px) == (px * 72) \div OCR_DPI

\* what one iteration of _find_box_with_ocr's page loop returns: a match, or
\* NoMatch when the loop goes on to the next page
ocr_page_match(page, info, idx) ==
    LET first_anchor == first_anchor_of(info.anchors)
        first_value == first_value_of(info.values)
        found == ocr_anchor_found(page, anchor_search_text(first_anchor))
    IN IF ~page.loads \/ ocr_reader # "reader" \/ found = <<>> THEN NoMatch
       ELSE LET value_rect == Rect(found[1].x + (first_value.x - first_anchor.x),
                                   found[1].y + (first_value.y - first_anchor.y),
                                   first_value.width, first_value.height)
                value_text == ocr_cropped_region(page, value_rect)
            IN IF value_text = <<>> THEN NoMatch
               ELSE [page |-> idx,
                     anchor_text |-> found[1].text,
                     value_text |-> value_text,
                     value_rect |-> FitzRect(
                         to_points(value_rect.x), to_points(value_rect.y),
                         to_points(value_rect.x + value_rect.width),
                         to_points(value_rect.y + value_rect.height))]

(***************************************************************************)
(* run_extraction, one action per step of its loops.                        *)
(***************************************************************************)
EmptyRow == [c \in {} |-> <<>>]

InitRunState ==
    /\ pc = "idle"
    /\ run_count = 0
    /\ doc_i = 0
    /\ label_i = 0
    /\ page_idx = 0
    /\ primary_instances = <<>>
    /\ cand_i = 0
    /\ match = NoMatch
    /\ row_data = EmptyRow
    /\ result_table = [columns |-> <<>>, rows |-> <<>>]
    /\ extraction_results = <<>>
    /\ extraction_screenshots = <<>>
    /\ extracted_count = 0
    /\ message = "none"
    /\ before_run = [results |-> <<>>, screenshots |-> <<>>,
                     table |-> [columns |-> <<>>, rows |-> <<>>]]

\* the result rows, the audit records and the table on display
shown ==
    [results |-> extraction_results, screenshots |-> extraction_screenshots,
     table |-> result_table]

Mutant_cleared_keeps(list) ==
    \* plausible bug: the list of the previous run is kept and appended to
    list

\* self.extraction_results = [], self.extraction_screenshots = [],
\* result_table.setRowCount(0)
cleared(list) == <<>>

\* run_extraction up to its try block: the early returns, then the reset of
\* the table and of the result lists
BeginRun ==
    /\ pc = "idle"
    /\ run_count < MaxRuns
    /\ run_count' = run_count + 1
    /\ IF paths = <<>>
       THEN /\ message' = "none"
            /\ UNCHANGED <<pc, doc_i, result_table, extraction_results,
                           extraction_screenshots, extracted_count>>
       ELSE IF module = "ocr" /\ ocr_reader = "not_installed"
       THEN /\ message' = "OCR Not Available"
            /\ UNCHANGED <<pc, doc_i, result_table, extraction_results,
                           extraction_screenshots, extracted_count>>
       ELSE IF all_labels = <<>>
       THEN /\ message' = "No Labels"
            /\ UNCHANGED <<pc, doc_i, result_table, extraction_results,
                           extraction_screenshots, extracted_count>>
       ELSE /\ result_table' = [columns |-> columns_of(all_labels),
                                 rows |-> cleared(result_table.rows)]
            /\ extraction_results' = cleared(extraction_results)
            /\ extraction_screenshots' = cleared(extraction_screenshots)
            /\ extracted_count' = 0
            /\ doc_i' = 1
            /\ message' = "none"
            /\ pc' = "open"
    /\ before_run' = shown
    /\ UNCHANGED <<label_i, row_data>>
    /\ UNCHANGED <<trainer, geom_vars, canvas_vars, input_vars, matcher_vars>>

\* for pdf_path in paths: doc = fitz.open(pdf_path) succeeds
OpenDoc ==
    /\ pc = "open"
    /\ doc_i <= Len(paths)
    /\ CurDoc.opens
    /\ row_data' = (FilenameColumn :> CurDoc.filename)
    /\ label_i' = 1
    /\ pc' = "find"
    /\ UNCHANGED <<run_count, doc_i, result_table, extraction_results,
                   extraction_screenshots, extracted_count, message>>
    /\ UNCHANGED <<trainer, geom_vars, canvas_vars, before_run, input_vars, matcher_vars>>

\* fitz.open raises: the exception leaves the for loop and is caught by the
\* except clause around it, which shows "Extraction failed"
OpenDocFails ==
    /\ pc = "open"
    /\ doc_i <= Len(paths)
    /\ ~CurDoc.opens
    /\ message' = "Extraction failed"
    /\ pc' = "idle"
    /\ UNCHANGED <<run_count, doc_i, label_i, row_data, result_table,
                   extraction_results, extraction_screenshots, extracted_count>>
    /\ UNCHANGED <<trainer, geom_vars, canvas_vars, before_run, input_vars, matcher_vars>>

\* the for loop is exhausted: "Extraction complete"
FinishRun ==
    /\ pc = "open"
    /\ doc_i > Len(paths)
    /\ message' = "Complete"
    /\ pc' = "idle"
    /\ UNCHANGED <<run_count, doc_i, label_i, row_data, result_table,
                   extraction_results, extraction_screenshots, extracted_count>>
    /\ UNCHANGED <<trainer, geom_vars, canvas_vars, before_run, input_vars, matcher_vars>>

\* the matcher is entered for (document, label): its early returns, else the
\* page loop starts at page 0
FindStart ==
    /\ pc = "find"
    /\ page_idx' = 0
    /\ primary_instances' = <<>>
    /\ cand_i' = 0
    /\ match' = NoMatch
    /\ pc' = IF (module = "native" /\ label_unusable(CurLabel))
                \/ (module = "ocr" /\ label_unusable_ocr(CurLabel))
             THEN "record" ELSE "page"
    /\ UNCHANGED <<run_count, doc_i, label_i, row_data, result_table,
                   extraction_results, extraction_screenshots, extracted_count, message>>
    /\ UNCHANGED <<trainer, geom_vars, canvas_vars, before_run, input_vars>>

Mutant_ReturnNone_marks_box ==
    \* plausible bug: a label that was not found has its anchor box moved
    /\ pc = "page"
    /\ page_idx >= Len(CurDoc.pages)
    /\ match' = NoMatch
    /\ pc' = "record"
    /\ template' = [template EXCEPT ![1].children[1].x = 0]
    /\ UNCHANGED <<module, paths, ocr_reader>>
    /\ UNCHANGED <<page_idx, primary_instances, cand_i>>
    /\ UNCHANGED <<run_count, doc_i, label_i, row_data, result_table,
                   extraction_results, extraction_screenshots, extracted_count, message>>
    /\ UNCHANGED <<trainer, geom_vars, canvas_vars, before_run>>

\* the page loop is exhausted: return None
ReturnNone ==
    /\ pc = "page"
    /\ page_idx >= Len(CurDoc.pages)
    /\ match' = NoMatch
    /\ pc' = "record"
    /\ UNCHANGED <<page_idx, primary_instances, cand_i>>
    /\ UNCHANGED <<run_count, doc_i, label_i, row_data, result_table,
                   extraction_results, extraction_screenshots, extracted_count, message>>
    /\ UNCHANGED <<trainer, geom_vars, canvas_vars, before_run, input_vars>>

Mutant_LoadPage_last_candidate ==
    \* plausible bug: the candidates are tried from the last occurrence
    /\ pc = "page"
    /\ module = "native"
    /\ page_idx < Len(CurDoc.pages)
    /\ LET found == IF CurPage.loads
                    THEN find_primary_instances(CurPage,
                                                first_anchor_of(CurLabel.anchors).name)
                    ELSE <<>>
       IN IF found = <<>>
          THEN /\ page_idx' = page_idx + 1
               /\ primary_instances' = <<>>
               /\ cand_i' = 0
               /\ pc' = "page"
          ELSE /\ primary_instances' = found
               /\ cand_i' = Len(found)
               /\ pc' = "cand"
               /\ UNCHANGED page_idx
    /\ UNCHANGED match
    /\ UNCHANGED <<run_count, doc_i, label_i, row_data, result_table,
                   extraction_results, extraction_screenshots, extracted_count, message>>
    /\ UNCHANGED <<trainer, geom_vars, canvas_vars, before_run, input_vars>>

\* native: load the page and search the primary anchor; an exception or no
\* occurrence continues with the next page
LoadPage ==
    /\ pc = "page"
    /\ module = "native"
    /\ page_idx < Len(CurDoc.pages)
    /\ LET found == IF CurPage.loads
                    THEN find_primary_instances(CurPage,
                                                first_anchor_of(CurLabel.anchors).name)
                    ELSE <<>>
       IN IF found = <<>>
          THEN /\ page_idx' = page_idx + 1
               /\ primary_instances' = <<>>
               /\ cand_i' = 0
               /\ pc' = "page"
          ELSE /\ primary_instances' = found
               /\ cand_i' = 1
               /\ pc' = "cand"
               /\ UNCHANGED page_idx
    /\ UNCHANGED match
    /\ UNCHANGED <<run_count, doc_i, label_i, row_data, result_table,
                   extraction_results, extraction_screenshots, extracted_count, message>>
    /\ UNCHANGED <<trainer, geom_vars, canvas_vars, before_run, input_vars>>

\* native: the candidates of the page are exhausted: next page
NextPage ==
    /\ pc = "cand"
    /\ cand_i > Len(primary_instances)
    /\ page_idx' = page_idx + 1
    /\ primary_instances' = <<>>
    /\ cand_i' = 0
    /\ pc' = "page"
    /\ UNCHANGED match
    /\ UNCHANGED <<run_count, doc_i, label_i, row_data, result_table,
                   extraction_results, extraction_screenshots, extracted_count, message>>
    /\ UNCHANGED <<trainer, geom_vars, canvas_vars, before_run, input_vars>>

Mutant_CheckCandidate_returns_empty ==
    \* plausible bug: an accepted occurrence is returned even with empty text
    /\ pc = "cand"
    /\ cand_i <= Len(primary_instances)
    /\ LET primary_rect == primary_instances[cand_i]
           value_rect == value_rect_of(CurPage, primary_rect,
                                       first_anchor_of(CurLabel.anchors),
                                       first_value_of(CurLabel.values))
           value_text == extract_value_text(CurPage, value_rect)
       IN IF all_secondary_match(CurPage, primary_rect, CurLabel.anchors)
          THEN /\ match' = [page |-> page_idx,
                            anchor_text |-> first_anchor_of(CurLabel.anchors).name,
                            value_text |-> value_text,
                            value_rect |-> value_rect]
               /\ pc' = "record"
               /\ UNCHANGED cand_i
          ELSE /\ cand_i' = cand_i + 1
               /\ UNCHANGED <<match, pc>>
    /\ UNCHANGED <<page_idx, primary_instances>>
    /\ UNCHANGED <<run_count, doc_i, label_i, row_data, result_table,
                   extraction_results, extraction_screenshots, extracted_count, message>>
    /\ UNCHANGED <<trainer, geom_vars, canvas_vars, before_run, input_vars>>

\* native: one iteration of `for primary_rect in primary_instances`
CheckCandidate ==
    /\ pc = "cand"
    /\ cand_i <= Len(primary_instances)
    /\ LET primary_rect == primary_instances[cand_i]
           value_rect == value_rect_of(CurPage, primary_rect,
                                       first_anchor_of(CurLabel.anchors),
                                       first_value_of(CurLabel.values))
           value_text == extract_value_text(CurPage, value_rect)
       IN IF all_secondary_match(CurPage, primary_rect, CurLabel.anchors)
             /\ value_text # <<>>
          THEN /\ match' = [page |-> page_idx,
                            anchor_text |-> first_anchor_of(CurLabel.anchors).name,
                            value_text |-> value_text,
                            value_rect |-> value_rect]
               /\ pc' = "record"
               /\ UNCHANGED cand_i
          ELSE /\ cand_i' = cand_i + 1
               /\ UNCHANGED <<match, pc>>
    /\ UNCHANGED <<page_idx, primary_instances>>
    /\ UNCHANGED <<run_count, doc_i, label_i, row_data, result_table,
                   extraction_results, extraction_screenshots, extracted_count, message>>
    /\ UNCHANGED <<trainer, geom_vars, canvas_vars, before_run, input_vars>>

\* OCR: one iteration of the page loop of _find_box_with_ocr
OcrPage ==
    /\ pc = "page"
    /\ module = "ocr"
    /\ page_idx < Len(CurDoc.pages)
    /\ LET m == ocr_page_match(CurPage, CurLabel, page_idx)
       IN IF m = NoMatch
          THEN /\ page_idx' = page_idx + 1
               /\ UNCHANGED <<match, pc>>
          ELSE /\ match' = m
               /\ pc' = "record"
               /\ UNCHANGED page_idx
    /\ UNCHANGED <<primary_instances, cand_i>>
    /\ UNCHANGED <<run_count, doc_i, label_i, row_data, result_table,
                   extraction_results, extraction_screenshots, extracted_count, message>>
    /\ UNCHANGED <<trainer, geom_vars, canvas_vars, before_run, input_vars>>

\* fitz.Rect.__bool__: false only for the all-zero rectangle
rect_truthy(r) == ~(r.x0 = 0 /\ r.y0 = 0 /\ r.x1 = 0 /\ r.y1 = 0)

screenshot(doc, label_name, m) ==
    [pdf_path |-> doc.filename, page_idx |-> m.page, value_rect |-> m.value_rect,
     label_name |-> label_name, value_text |-> m.value_text]

Mutant_row_with_skips_unmatched(row, name, m) ==
    \* plausible bug: nothing is recorded for a label without a match
    IF m # NoMatch
    THEN (AnchorColumn(name) :> m.anchor_text)
         @@ (ValueColumn(name) :> m.value_text) @@ row
    ELSE row

\* if match: the two cells of the label hold the match; else: empty strings
row_with(row, name, m) ==
    IF m # NoMatch
    THEN (AnchorColumn(name) :> m.anchor_text)
         @@ (ValueColumn(name) :> m.value_text) @@ row
    ELSE (AnchorColumn(name) :> <<>>)
         @@ (ValueColumn(name) :> <<>>) @@ row

\* back in run_extraction: the matcher's result goes into row_data; after the
\* last label the document is closed and its row appended
RecordMatch ==
    /\ pc = "record"
    /\ LET name == CurLabel.name
           row == row_with(row_data, name, match)
       IN /\ extracted_count' = IF match # NoMatch THEN extracted_count + 1
                                ELSE extracted_count
          /\ extraction_screenshots' =
                IF match # NoMatch /\ rect_truthy(match.value_rect)
                THEN Append(extraction_screenshots, screenshot(CurDoc, name, match))
                ELSE extraction_screenshots
          /\ IF label_i < Len(all_labels)
             THEN /\ row_data' = row
                  /\ label_i' = label_i + 1
                  /\ pc' = "find"
                  /\ UNCHANGED <<doc_i, result_table, extraction_results>>
             ELSE /\ row_data' = row
                  /\ result_table' =
                        [result_table EXCEPT
                            !.rows = Append(@, table_row(result_table.columns, row))]
                  /\ extraction_results' = Append(extraction_results, row)
                  /\ doc_i' = doc_i + 1
                  /\ pc' = "open"
                  /\ UNCHANGED label_i
    /\ UNCHANGED <<run_count, message>>
    /\ UNCHANGED <<trainer, geom_vars, canvas_vars, before_run, input_vars, matcher_vars>>

NextRun ==
    \/ BeginRun
    \/ OpenDoc
    \/ OpenDocFails
    \/ FinishRun
    \/ FindStart
    \/ ReturnNone
    \/ LoadPage
    \/ NextPage
    \/ CheckCandidate
    \/ OcrPage
    \/ RecordMatch

(***************************************************************************)
(* Template authoring: OCRCanvasWidget and the module's slots connected to  *)
(* its signals. Box objects are identified by their index in objects; 0 is  *)
(* None. Rectangles are left out: which box a click hits is an input.       *)
(***************************************************************************)
MaxBoxes == 3

Modes == {"label", "anchor", "value"}

\* OCRBox(rect, name, box_type): parent None, no children
OCRBox(box_type) == [box_type |-> box_type, parent |-> 0, children |-> <<>>]

\* OCRBox.add_child
add_child(objs, parent, child) ==
    [objs EXCEPT ![child].parent = parent,
                 ![parent].children = Append(@, child)]

\* list.remove
remove(list, e) == SelectSeq(list, LAMBDA x : x # e)

InitCanvas ==
    /\ objects = <<>>
    /\ boxes = <<>>
    /\ selected_box = 0
    /\ current_mode = "label"
    /\ active_parent_box = 0
    /\ current_rect = FALSE
    /\ drag_mode = "None"

\* OCRCanvasWidget.set_active_parent
set_active_parent(parent_box) ==
    /\ active_parent_box' = parent_box
    /\ selected_box' = parent_box

\* the boxes a click can hit: the top-level boxes and their children
Clickable ==
    {boxes[i] : i \in 1..Len(boxes)}
    \cup UNION {{objects[boxes[i]].children[k] :
                    k \in 1..Len(objects[boxes[i]].children)} : i \in 1..Len(boxes)}

\* the module's set_mode, which calls canvas.set_mode
SetMode ==
    \E mode \in Modes :
        /\ current_mode' = mode
        /\ active_parent_box' = IF mode = "label" THEN 0 ELSE active_parent_box
        /\ UNCHANGED <<objects, boxes, selected_box, current_rect, drag_mode>>
        /\ UNCHANGED <<trainer, geom_vars, input_vars, matcher_vars, run_vars, before_run>>

\* mousePressEvent on a resize handle of the selected box
PressHandle ==
    /\ drag_mode = "None" /\ ~current_rect
    /\ selected_box # 0
    /\ drag_mode' = "resize"
    /\ UNCHANGED <<objects, boxes, selected_box, current_mode, active_parent_box,
                   current_rect>>
    /\ UNCHANGED <<trainer, geom_vars, input_vars, matcher_vars, run_vars, before_run>>

\* mousePressEvent inside the active parent box in anchor/value mode: a
\* sub-box is started
PressInParent ==
    /\ drag_mode = "None" /\ ~current_rect
    /\ current_mode \in {"anchor", "value"}
    /\ active_parent_box # 0
    /\ current_rect' = TRUE
    /\ UNCHANGED <<objects, boxes, selected_box, current_mode, active_parent_box,
                   drag_mode>>
    /\ UNCHANGED <<trainer, geom_vars, input_vars, matcher_vars, run_vars, before_run>>

\* the slot connected to canvas.box_selected: OCRTrainerModule makes a label
\* box the active parent, OCRImageTrainerModule any box
on_box_selected(box) ==
    IF module = "ocr" \/ objects[box].box_type = "label"
    THEN set_active_parent(box)
    ELSE /\ selected_box' = box
         /\ UNCHANGED active_parent_box

\* mousePressEvent on an existing box: the selected box starts a move, another
\* box is selected and box_selected is emitted
PressBox ==
    \E clicked_box \in Clickable :
        /\ drag_mode = "None" /\ ~current_rect
        /\ ~(current_mode \in {"anchor", "value"} /\ clicked_box = active_parent_box)
        /\ IF clicked_box = selected_box
           THEN /\ drag_mode' = "move"
                /\ UNCHANGED <<selected_box, active_parent_box>>
           ELSE /\ on_box_selected(clicked_box)
                /\ UNCHANGED drag_mode
        /\ UNCHANGED <<objects, boxes, current_mode, current_rect>>
        /\ UNCHANGED <<trainer, geom_vars, input_vars, matcher_vars, run_vars, before_run>>

\* mousePressEvent on no box: a new rectangle is started
PressEmpty ==
    /\ drag_mode = "None" /\ ~current_rect
    /\ selected_box' = 0
    /\ current_rect' = TRUE
    /\ UNCHANGED <<objects, boxes, current_mode, active_parent_box, drag_mode>>
    /\ UNCHANGED <<trainer, geom_vars, input_vars, matcher_vars, run_vars, before_run>>

\* mouseReleaseEvent ending a move or a resize
ReleaseDrag ==
    /\ drag_mode # "None"
    /\ drag_mode' = "None"
    /\ UNCHANGED <<objects, boxes, selected_box, current_mode, active_parent_box,
                   current_rect>>
    /\ UNCHANGED <<trainer, geom_vars, input_vars, matcher_vars, run_vars, before_run>>

\* mouseReleaseEvent ending a rectangle: when it is larger than 10 x 10 and a
\* name is entered, the box is created
ReleaseDraw ==
    /\ drag_mode = "None"
    /\ current_rect
    /\ \E created \in BOOLEAN :
          IF created /\ Len(objects) < MaxBoxes
          THEN LET new_box == Len(objects) + 1
                   made == Append(objects, OCRBox(current_mode))
               IN /\ IF current_mode = "label"
                     THEN /\ boxes' = Append(boxes, new_box)
                          /\ active_parent_box' = new_box
                          /\ objects' = made
                     ELSE IF active_parent_box # 0
                     THEN /\ objects' = add_child(made, active_parent_box, new_box)
                          /\ UNCHANGED <<boxes, active_parent_box>>
                     ELSE /\ objects' = made
                          /\ UNCHANGED <<boxes, active_parent_box>>
                  /\ selected_box' = new_box
          ELSE UNCHANGED <<objects, boxes, selected_box, active_parent_box>>
    /\ current_rect' = FALSE
    /\ UNCHANGED <<current_mode, drag_mode>>
    /\ UNCHANGED <<trainer, geom_vars, input_vars, matcher_vars, run_vars, before_run>>

\* the module's delete_selected_box, which calls canvas.delete_selected_box
DeleteSelectedBox ==
    /\ selected_box # 0
    /\ LET box == selected_box
       IN IF objects[box].parent # 0
          THEN /\ objects' = [objects EXCEPT
                                 ![objects[box].parent].children = remove(@, box)]
               /\ UNCHANGED boxes
          ELSE /\ boxes' = remove(boxes, box)
               /\ UNCHANGED objects
    /\ selected_box' = 0
    /\ UNCHANGED <<current_mode, active_parent_box, current_rect, drag_mode>>
    /\ UNCHANGED <<trainer, geom_vars, input_vars, matcher_vars, run_vars, before_run>>

\* the module's clear_all_boxes answered Yes, which calls canvas.clear_boxes
ClearBoxes ==
    /\ boxes' = <<>>
    /\ selected_box' = 0
    /\ active_parent_box' = 0
    /\ UNCHANGED <<objects, current_mode, current_rect, drag_mode>>
    /\ UNCHANGED <<trainer, geom_vars, input_vars, matcher_vars, run_vars, before_run>>

NextCanvas ==
    \/ SetMode
    \/ PressHandle
    \/ PressInParent
    \/ PressBox
    \/ PressEmpty
    \/ ReleaseDrag
    \/ ReleaseDraw
    \/ DeleteSelectedBox
    \/ ClearBoxes

(***************************************************************************)
(* Inputs of the extraction runs: templates and documents.                  *)
(***************************************************************************)
MaxAnchors == 3
MaxValues == 2
MaxLabels == 2

AccountNumber == <<"Account", "Number:">>
Account == <<"Account">>

\* the k-th anchor child of a label: the primary at (100, 100), the secondary
\* anchors below it, 75 units apart
AnchorChild(k, primary_name) ==
    IF k = 1 THEN Box(primary_name, "anchor", 100, 100, 50, 25)
    ELSE Box(IF k = 2 THEN <<"Name:">> ELSE <<"Date:">>, "anchor",
             100, 100 + 75 * (k - 1), 50, 25)

\* the k-th value child: the first 75 units right of the primary anchor
ValueChild(k) ==
    IF k = 1 THEN Box(<<"Value">>, "value", 175, 100, 125, 25)
    ELSE Box(<<"Value">>, "value", 25, 25 * k, 50, 25)

Label(name, na, nv, primary_name) ==
    LabelBox(name, [k \in 1..na |-> AnchorChild(k, primary_name)]
                   \o [k \in 1..nv |-> ValueChild(k)])

MatchLabels ==
    {Label("L1", na, nv, pn) :
        na \in 1..MaxAnchors, nv \in 1..MaxValues, pn \in {AccountNumber, Account}}
    \cup {Label("L1", 0, 1, Account), Label("L1", 1, 0, Account), Label("L1", 1, 1, <<>>)}

\* occurrences of the primary anchor text, of its first word alone, of the
\* secondary anchor text, and value texts
Primary(x, y) == Run(AccountNumber, x, y)
FirstWord(x, y) == Run(Account, x, y)
Secondary(x, y) == Run(<<"Name:">>, x, y)
Third(x, y) == Run(<<"Date:">>, x, y)
V1 == Run(<<"v1">>, 175, 100)
V2 == Run(<<"v2">>, 175, 300)
V3 == Run(<<"v3">>, 375, 100)
Near == Run(<<"near">>, 170, 100)

BadPage == [Page(<<>>, {}) EXCEPT !.loads = FALSE]

\* how far the secondary anchor lies from its learned offset
ToleranceOffsets ==
    {<<0, 0>>, <<POSITION_TOLERANCE, 0>>, <<0, POSITION_TOLERANCE>>,
     <<POSITION_TOLERANCE + 1, 0>>, <<0, POSITION_TOLERANCE + 1>>,
     <<-POSITION_TOLERANCE, -POSITION_TOLERANCE>>,
     <<-(POSITION_TOLERANCE + 1), 0>>, <<0, -(POSITION_TOLERANCE + 1)>>}

TolerancePages ==
    {Page(<<Primary(100, 100), Secondary(100 + d[1], 175 + d[2]), V1>>, {}) :
        d \in ToleranceOffsets}
    \cup {Page(<<Primary(100, 100), Secondary(300, 400), Secondary(100, 175), V1>>, {})}

\* the primary anchor twice, in either locator order, the secondary anchor
\* near one occurrence, near the other, or absent
DisambiguationPages ==
    {Page(prims \o secs \o vals, {}) :
        prims \in {<<Primary(100, 100), Primary(100, 300)>>,
                   <<Primary(100, 300), Primary(100, 100)>>},
        secs \in {<<Secondary(100, 175)>>, <<Secondary(100, 375)>>, <<>>},
        vals \in {<<V1, V2>>, <<V2>>}}

\* one accepted occurrence whose value region holds text, nothing, text within
\* the 10-unit margin only, text both inside and within the margin, or an
\* image block (alone, or with text within the margin)
ValueRegionPages ==
    {Page(<<Primary(100, 100)>> \o vals, imgs) :
        vals \in {<<V1>>, <<>>, <<Near>>, <<Near, V1>>}, imgs \in {{}}}
    \cup {Page(<<Primary(100, 100)>> \o vals, {[x |-> 200, y |-> 110]}) :
            vals \in {<<>>, <<Near>>}}

\* only the first word of the anchor text occurs, or it occurs before the full text
FallbackPages ==
    {Page(<<FirstWord(100, 100), V1>>, {}),
     Page(<<FirstWord(100, 100), Primary(100, 300), V1, V2>>, {})}

\* the value region reaches over, or lies beyond, the right page edge
EdgePages ==
    {Page(<<Primary(300, 100), V3>>, {}), Page(<<Primary(350, 100), V3>>, {})}

\* two secondary anchors: both at their learned offsets, or one of them off
TwoSecondaryPages ==
    {Page(<<Primary(100, 100), Secondary(100, 175 + d[1]), Third(100, 250 + d[2]), V1>>, {}) :
        d \in {<<0, 0>>, <<POSITION_TOLERANCE + 1, 0>>, <<0, POSITION_TOLERANCE + 1>>}}

\* pages of every rotation, of visual size 400 x 500, with an occurrence and a
\* value near the bottom
RotatedPages ==
    {[Page(<<Primary(100, 380), Run(<<"v4">>, 175, 380)>>, {}) EXCEPT !.rotation = r] :
        r \in ValidRotations}

PageSet ==
    TolerancePages \cup DisambiguationPages \cup ValueRegionPages
    \cup FallbackPages \cup EdgePages \cup TwoSecondaryPages \cup RotatedPages
    \cup {Page(<<>>, {}), BadPage}

\* pages that precede the last page of a document
LeadPages ==
    {Page(<<>>, {}), BadPage,
     Page(<<Primary(100, 100)>>, {}),
     Page(<<Primary(100, 100), V1>>, {}),
     Page(<<Primary(100, 100), Primary(100, 300), V2>>, {}),
     Page(<<Primary(100, 100), Secondary(100 + POSITION_TOLERANCE + 1, 175), V1>>, {})}

RECURSIVE SeqsUpTo(_, _)
SeqsUpTo(S, n) ==
    IF n = 0 THEN {<<>>}
    ELSE LET shorter == SeqsUpTo(S, n - 1)
         IN shorter \cup {Append(q, e) : q \in shorter, e \in S}

Doc(i, opens, pages) ==
    [filename |-> <<"doc", ToString(i)>>, opens |-> opens, pages |-> pages]

\* documents of up to MaxPages pages
MatchDocs ==
    {Doc(1, TRUE, lead \o <<last>>) :
        lead \in SeqsUpTo(LeadPages, MaxPages - 1), last \in PageSet}

\* one label matched against one document
InitMatch ==
    /\ module \in {"native", "ocr"}
    /\ ocr_reader = "reader"
    /\ template \in {<<l>> : l \in MatchLabels}
    /\ paths \in {<<d>> : d \in MatchDocs}

\* batches of up to MaxDocs documents: one that cannot be opened, one with a
\* match on its second page, one without any match
BatchPages ==
    {<<>>,
     <<Page(<<Primary(100, 100)>>, {}), Page(<<Primary(100, 100), V1>>, {})>>,
     <<Page(<<>>, {})>>}

BatchDocs ==
    {[i \in 1..Len(kinds) |-> Doc(i, kinds[i] # <<>>, kinds[i])] :
        kinds \in SeqsUpTo(BatchPages, MaxDocs)}

\* labels of a batch template: usable ones, two of the same name, one without
\* an Anchor child and one without a Value child
BatchLabels ==
    {Label("L1", 1, 1, AccountNumber), Label("L2", 2, 1, Account),
     Label("L1", 1, 2, Account), Label("L3", 0, 1, Account),
     Label("L4", 1, 0, AccountNumber)}

BatchTemplates == SeqsUpTo(BatchLabels, MaxLabels)

InitBatch ==
    /\ \/ module = "native" /\ ocr_reader = "reader"
       \/ module = "ocr" /\ ocr_reader \in {"reader", "None", "not_installed"}
    /\ template \in BatchTemplates
    /\ paths \in BatchDocs


(***************************************************************************)
(* The trainer module around the canvas: its document list, the page shown, *)
(* the zoom, the boxes kept per page and save_template.  OCRTrainerModule   *)
(* (module = "native") and OCRImageTrainerModule (module = "ocr").          *)
(***************************************************************************)
MaxOpens == 2       \* documents opened in a session
MaxDrawn == 1       \* boxes drawn in a session
MaxZooms == 2       \* zoom operations in a session

\* exact fractions n/d in lowest terms: scales and scaled coordinates
RECURSIVE GCD(_, _)
GCD(a, b) == IF b = 0 THEN a ELSE GCD(b, a % b)

Q(n, d) == LET g == GCD(Abs(n), d) IN [n |-> n \div g, d |-> d \div g]
QAdd(a, b) == Q(a.n * b.d + b.n * a.d, a.d * b.d)
QSub(a, b) == Q(a.n * b.d - b.n * a.d, a.d * b.d)
QMul(a, b) == Q(a.n * b.n, a.d * b.d)
QDiv(a, b) == Q(a.n * b.d, a.d * b.n)
QMin(a, b) == IF b.n * a.d < a.n * b.d THEN b ELSE a
QMax(a, b) == IF a.n * b.d < b.n * a.d THEN b ELSE a

ScaleRect(r, q) == Rect(QMul(r.x, q), QMul(r.y, q), QMul(r.width, q), QMul(r.height, q))

\* the files the file dialog offers: one page, two pages, one that fitz cannot
\* open; every page is unrotated
PdfFiles ==
    {[path |-> "a.pdf", opens |-> TRUE, pages |-> 1],
     [path |-> "b.pdf", opens |-> TRUE, pages |-> 2],
     [path |-> "bad.pdf", opens |-> FALSE, pages |-> 0]}

\* the rectangles the user draws, in canvas pixels
DrawnRects == {Rect(Q(40, 1), Q(60, 1), Q(80, 1), Q(20, 1))}

\* a Label box without children; id is OCRBox.id, kept by every copy
LabelOCRBox(rect, id) == [rect |-> rect, id |-> id, box_type |-> "label"]

InitTrainer ==
    trainer = [loaded_pdfs |-> <<>>,        \* [filename, doc, pages], doc a handle
               current_pdf_index |-> -1,
               current_page_index |-> 0,
               page_boxes |-> <<>>,          \* dict in insertion order: [key, boxes]
               page_images |-> {},           \* OCR module: keys of the cached rasters
               zoom_scale |-> Q(1, 1),
               pdf_list_row |-> -1,          \* pdf_list.currentRow()
               canvas_boxes |-> <<>>,        \* canvas.boxes, with their rectangles
               scale_factor |-> Q(1, 1),     \* canvas.scale_factor
               saved |-> <<>>,               \* the LabeledBox rows of the template
               raised |-> "",                \* the exception in flight, if any
               printed |-> "",               \* exception the last handler ended with
               opened |-> 0,                 \* history: documents opened so far
               drawn |-> <<>>,               \* history: id -> doc the box was drawn on
               zoomed |-> 0]                 \* history: zoom operations so far

\* the exceptions of self.loaded_pdfs[self.current_pdf_index], of
\* doc.load_page(self.current_page_index) and of self.loaded_pdfs[pdf_idx] for a
\* key of page_boxes
IndexError == "IndexError: loaded_pdfs[current_pdf_index]"
PageNotInDocument == "ValueError: load_page(current_page_index)"
StaleKeyError == "IndexError: loaded_pdfs[pdf_idx]"

\* an exception is raised: a caller skips its remaining statements when raised
\* is set, up to the slot
Raise(t, e) == [t EXCEPT !.raised = e]

\* PySide prints an exception that leaves a slot and returns to the emitter
Slot(t) == IF t.raised # "" THEN [t EXCEPT !.printed = t.raised, !.raised = ""] ELSE t

\* the dict page_boxes
HasKey(d, k) == \E i \in 1..Len(d) : d[i].key = k
Get(d, k) == d[CHOOSE i \in 1..Len(d) : d[i].key = k].boxes
Put(d, k, v) ==
    IF HasKey(d, k)
    THEN [i \in 1..Len(d) |-> IF d[i].key = k THEN [key |-> k, boxes |-> v] ELSE d[i]]
    ELSE Append(d, [key |-> k, boxes |-> v])

\* OCRTrainerModule._scale_box_to_pdf_coords: canvas -> document units
scale_box_to_pdf_coords(t, box) ==
    [box EXCEPT !.rect = ScaleRect(@, QDiv(Q(1, 1), t.zoom_scale))]

\* OCRImageTrainerModule._scale_box_to_ocr_coords: canvas -> pixels at OCR_DPI
scale_box_to_ocr_coords(t, box) ==
    [box EXCEPT !.rect = ScaleRect(@, QDiv(Q(OCR_DPI, 72), t.zoom_scale))]

\* _scale_box_to_canvas_coords of either module
scale_box_to_canvas_coords(t, box) ==
    IF module = "native"
    THEN [box EXCEPT !.rect = ScaleRect(@, t.zoom_scale)]
    ELSE [box EXCEPT !.rect = ScaleRect(@, QDiv(t.zoom_scale, Q(OCR_DPI, 72)))]

save_current_page_boxes(t) ==
    IF t.current_pdf_index >= 0
    THEN LET key == <<t.current_pdf_index, t.current_page_index>>
             stored == [i \in 1..Len(t.canvas_boxes) |->
                           IF module = "native"
                           THEN scale_box_to_pdf_coords(t, t.canvas_boxes[i])
                           ELSE scale_box_to_ocr_coords(t, t.canvas_boxes[i])]
         IN [t EXCEPT !.page_boxes = Put(@, key, stored)]
    ELSE t

\* canvas.set_image(pixmap, scale_factor)
set_image(t, scale_factor) ==
    [t EXCEPT !.canvas_boxes = <<>>, !.scale_factor = scale_factor]

\* the tail of render_current_page and apply_zoom: canvas.set_boxes
load_page_boxes(t) ==
    LET key == <<t.current_pdf_index, t.current_page_index>>
    IN IF HasKey(t.page_boxes, key)
       THEN [t EXCEPT !.canvas_boxes =
                [i \in 1..Len(Get(t.page_boxes, key)) |->
                    scale_box_to_canvas_coords(t, Get(t.page_boxes, key)[i])]]
       ELSE [t EXCEPT !.canvas_boxes = <<>>]

\* self.loaded_pdfs[self.current_pdf_index], then doc.load_page(current_page_index)
load_current_page(t) ==
    IF t.current_pdf_index >= Len(t.loaded_pdfs) THEN Raise(t, IndexError)
    ELSE IF t.current_page_index >= t.loaded_pdfs[t.current_pdf_index + 1].pages
    THEN Raise(t, PageNotInDocument)
    ELSE t

render_page(t) == load_page_boxes(set_image(t, t.zoom_scale))

render_current_page(t) ==
    IF t.current_pdf_index < 0 \/ t.loaded_pdfs = <<>> THEN t
    ELSE LET u == load_current_page(t)
         IN IF u.raised # "" THEN u ELSE render_page(u)

\* the slot of pdf_list.currentRowChanged
on_pdf_selected(t, row) ==
    IF row >= 0 /\ (module = "ocr" \/ row # t.current_pdf_index)
    THEN render_current_page([save_current_page_boxes(t) EXCEPT
                                 !.current_pdf_index = row,
                                 !.current_page_index = 0])
    ELSE t

\* QListWidget.setCurrentRow: currentRowChanged is emitted when the row changes
setCurrentRow(t, row) ==
    IF row = t.pdf_list_row THEN t
    ELSE Slot(on_pdf_selected([t EXCEPT !.pdf_list_row = row], row))

\* QListWidget.takeItem(row) of the current row of a list of count items: the
\* view makes the next item current, or the previous one when there is no next,
\* and emits currentRowChanged BEFORE the row is removed, so with the new
\* current item's row in the old numbering; -1 when the list becomes empty
takeItem(t, row, count) ==
    IF count = 1
    THEN Slot(on_pdf_selected([t EXCEPT !.pdf_list_row = -1], -1))
    ELSE IF row + 1 < count
    THEN [Slot(on_pdf_selected([t EXCEPT !.pdf_list_row = row + 1], row + 1))
             EXCEPT !.pdf_list_row = row]
    ELSE Slot(on_pdf_selected([t EXCEPT !.pdf_list_row = row - 1], row - 1))

\* the loop of add_pdfs over the chosen paths
RECURSIVE open_paths(_, _)
open_paths(t, chosen) ==
    IF chosen = <<>> THEN t
    ELSE open_paths(
             IF Head(chosen).opens
             THEN [t EXCEPT !.loaded_pdfs =
                                Append(@, [filename |-> Head(chosen).path,
                                           doc |-> t.opened + 1,
                                           pages |-> Head(chosen).pages]),
                            !.opened = @ + 1]
             ELSE t,
             Tail(chosen))

add_pdfs(t, chosen) ==
    LET t1 == open_paths(t, chosen)
    IN IF t1.loaded_pdfs # <<>> /\ t1.current_pdf_index < 0
       THEN IF module = "native"
            THEN render_current_page(
                     setCurrentRow([t1 EXCEPT !.current_pdf_index = 0,
                                              !.current_page_index = 0], 0))
            ELSE setCurrentRow(t1, 0)
       ELSE t1

\* del list[i], i counted from 0
Delete(list, i) == SubSeq(list, 1, i) \o SubSeq(list, i + 2, Len(list))

remove_pdf(t) ==
    LET row == t.pdf_list_row
    IN IF row < 0 THEN t
       ELSE LET t2 == takeItem([t EXCEPT !.loaded_pdfs = Delete(@, row)],
                               row, Len(t.loaded_pdfs))
                \* native: every key of page_boxes with k[0] == row; OCR: only
                \* the keys that page_images holds
                keys_to_remove ==
                    IF module = "native"
                    THEN {t2.page_boxes[i].key : i \in 1..Len(t2.page_boxes)}
                    ELSE t2.page_images
                t3 == [t2 EXCEPT
                          !.page_boxes =
                              SelectSeq(@, LAMBDA e : ~(e.key \in keys_to_remove
                                                        /\ e.key[1] = row)),
                          !.page_images = {k \in @ : k[1] # row}]
            IN IF t3.loaded_pdfs = <<>>
               THEN set_image([t3 EXCEPT !.current_pdf_index = -1], Q(1, 1))
               ELSE IF module = "ocr"
               THEN setCurrentRow([t3 EXCEPT !.current_pdf_index =
                                      Min(row, Len(t3.loaded_pdfs) - 1)],
                                  Min(row, Len(t3.loaded_pdfs) - 1))
               ELSE IF row <= t3.current_pdf_index
               THEN render_current_page([t3 EXCEPT !.current_pdf_index = Max(0, @ - 1)])
               ELSE t3

show_page(t, new_page) ==
    IF 0 <= new_page /\ new_page < t.loaded_pdfs[t.current_pdf_index + 1].pages
    THEN render_current_page([t EXCEPT !.current_page_index = new_page])
    ELSE t

navigate_page(t, delta) ==
    IF t.current_pdf_index < 0 THEN t
    ELSE LET t1 == save_current_page_boxes(t)
         IN IF t1.current_pdf_index >= Len(t1.loaded_pdfs) THEN Raise(t1, IndexError)
            ELSE show_page(t1, t1.current_page_index + delta)

apply_zoom(t) ==
    IF t.current_pdf_index < 0 \/ t.loaded_pdfs = <<>> THEN t
    ELSE LET u == load_current_page(save_current_page_boxes(t))
         IN IF u.raised # "" THEN u ELSE render_page(u)

zoom_in(t) ==
    apply_zoom([t EXCEPT !.zoom_scale = QMin(QAdd(@, Q(1, 4)), Q(5, 1))])

zoom_out(t) ==
    apply_zoom([t EXCEPT !.zoom_scale = QMax(QSub(@, Q(1, 4)), Q(1, 4))])

zoom_reset(t) ==
    apply_zoom([t EXCEPT !.zoom_scale = Q(1, 1)])

\* mouseReleaseEvent in label mode with a name entered, then the slot of
\* box_created: OCRTrainerModule.on_box_created saves the page's boxes,
\* OCRImageTrainerModule.on_box_created does not (a Label box needs no OCR)
draw_label(t, rect) ==
    LET on_doc == IF t.current_pdf_index \in 0..(Len(t.loaded_pdfs) - 1)
                 THEN t.loaded_pdfs[t.current_pdf_index + 1].doc ELSE 0
        t1 == [t EXCEPT !.canvas_boxes = Append(@, LabelOCRBox(rect, Len(t.drawn) + 1)),
                        !.drawn = Append(@, on_doc)]
    IN IF module = "native" THEN save_current_page_boxes(t1) ELSE t1

\* OCRImageTrainerModule.run_ocr_on_page, as far as it caches the page raster
run_ocr_on_page(t) ==
    IF t.current_pdf_index < 0 \/ t.loaded_pdfs = <<>> THEN t
    ELSE LET u == load_current_page(t)
         IN IF u.raised # "" THEN u
            ELSE [u EXCEPT !.page_images =
                     @ \cup {<<u.current_pdf_index, u.current_page_index>>}]

\* _save_box_to_db for a box of page (pdf_idx, page_idx): the rectangle divided
\* by canvas.scale_factor, transformed with the page's rotation (0 here), and
\* stored as a LabeledBox row
save_box_to_db(t, box, key) ==
    LET vis == ScaleRect(box.rect, QDiv(Q(1, 1), t.scale_factor))
    IN [pdf_filename |-> t.loaded_pdfs[key[1] + 1].filename,
        page_number |-> key[2],
        id |-> box.id,
        rect |-> transform_visual_to_pdf_coords(vis.x, vis.y, vis.width, vis.height,
                                                Q(400, 1), Q(500, 1), 0)]

\* the loop of save_template over page_boxes.items(), from entry i on
RECURSIVE save_pages(_, _)
save_pages(t, i) ==
    IF i > Len(t.page_boxes) THEN t
    ELSE LET entry == t.page_boxes[i]
         IN IF entry.boxes = <<>> THEN save_pages(t, i + 1)
            ELSE IF entry.key[1] >= Len(t.loaded_pdfs) THEN Raise(t, StaleKeyError)
            ELSE save_pages(
                     [t EXCEPT !.saved = @ \o [b \in 1..Len(entry.boxes) |->
                                  save_box_to_db(t, entry.boxes[b], entry.key)]],
                     i + 1)

\* OCRTrainerModule.save_template with a template name entered (an existing
\* template of that name is replaced)
save_template(t) ==
    LET t1 == save_current_page_boxes(t)
    IN IF \A i \in 1..Len(t1.page_boxes) : t1.page_boxes[i].boxes = <<>> THEN t1
       ELSE save_pages([t1 EXCEPT !.saved = <<>>], 1)

\* Each handler runs as the slot of a button, a list or a mouse event; printed
\* holds what the last handler printed.
AddPdfs ==
    \E chosen \in SeqsUpTo(PdfFiles, 2) :
        /\ trainer.opened + Len(SelectSeq(chosen, LAMBDA f : f.opens)) <= MaxOpens
        /\ trainer' = Slot(add_pdfs([trainer EXCEPT !.printed = ""], chosen))
        /\ UNCHANGED <<geom_vars, input_vars, matcher_vars, run_vars, before_run,
                       canvas_vars>>

RemovePdf ==
    /\ trainer' = Slot(remove_pdf([trainer EXCEPT !.printed = ""]))
    /\ UNCHANGED <<geom_vars, input_vars, matcher_vars, run_vars, before_run, canvas_vars>>

\* the user clicks a row of pdf_list
SelectPdf ==
    \E row \in 0..(Len(trainer.loaded_pdfs) - 1) :
        /\ trainer' = Slot(setCurrentRow([trainer EXCEPT !.printed = ""], row))
        /\ UNCHANGED <<geom_vars, input_vars, matcher_vars, run_vars, before_run,
                       canvas_vars>>

NavigatePage ==
    \E delta \in {-1, 1} :
        /\ trainer' = Slot(navigate_page([trainer EXCEPT !.printed = ""], delta))
        /\ UNCHANGED <<geom_vars, input_vars, matcher_vars, run_vars, before_run,
                       canvas_vars>>

ZoomIn ==
    /\ trainer.zoomed < MaxZooms
    /\ trainer' = Slot(zoom_in([trainer EXCEPT !.printed = "", !.zoomed = @ + 1]))
    /\ UNCHANGED <<geom_vars, input_vars, matcher_vars, run_vars, before_run, canvas_vars>>

ZoomOut ==
    /\ trainer.zoomed < MaxZooms
    /\ trainer' = Slot(zoom_out([trainer EXCEPT !.printed = "", !.zoomed = @ + 1]))
    /\ UNCHANGED <<geom_vars, input_vars, matcher_vars, run_vars, before_run, canvas_vars>>

\* the 100% button exists in OCRTrainerModule only
ZoomReset ==
    /\ module = "native"
    /\ trainer.zoomed < MaxZooms
    /\ trainer' = Slot(zoom_reset([trainer EXCEPT !.printed = "", !.zoomed = @ + 1]))
    /\ UNCHANGED <<geom_vars, input_vars, matcher_vars, run_vars, before_run, canvas_vars>>

DrawLabel ==
    \E rect \in DrawnRects :
        /\ Len(trainer.drawn) < MaxDrawn
        /\ trainer' = Slot(draw_label([trainer EXCEPT !.printed = ""], rect))
        /\ UNCHANGED <<geom_vars, input_vars, matcher_vars, run_vars, before_run,
                       canvas_vars>>

RunOcrOnPage ==
    /\ module = "ocr"
    /\ trainer' = Slot(run_ocr_on_page([trainer EXCEPT !.printed = ""]))
    /\ UNCHANGED <<geom_vars, input_vars, matcher_vars, run_vars, before_run, canvas_vars>>

SaveTemplate ==
    /\ module = "native"
    /\ trainer' = Slot(save_template([trainer EXCEPT !.printed = ""]))
    /\ UNCHANGED <<geom_vars, input_vars, matcher_vars, run_vars, before_run, canvas_vars>>

NextTrainer ==
    \/ AddPdfs
    \/ RemovePdf
    \/ SelectPdf
    \/ NavigatePage
    \/ ZoomIn
    \/ ZoomOut
    \/ ZoomReset
    \/ DrawLabel
    \/ RunOcrOnPage
    \/ SaveTemplate

(***************************************************************************)
(* Specifications.                                                          *)
(***************************************************************************)
\* the extraction variables while only the transform is exercised
IdleRun ==
    /\ module = "native"
    /\ ocr_reader = "reader"
    /\ template = <<>>
    /\ paths = <<>>
    /\ InitRunState

InitGeom == TransformInputs /\ IdleRun /\ InitCanvas /\ InitTrainer

NextGeom == TransformCall

SpecGeom == InitGeom /\ [][NextGeom]_vars

\* the transform variables while only extraction is exercised
IdleGeom ==
    /\ tv_args = FixtureArgs
    /\ tv_result = [status |-> "pending", rect |-> Rect(0, 0, 0, 0)]

Init ==
    IdleGeom /\ InitCanvas /\ InitTrainer /\ InitRunState /\ (InitMatch \/ InitBatch)

\* template authoring alone, in either module
InitAuthoring ==
    /\ IdleGeom
    /\ InitCanvas
    /\ InitTrainer
    /\ InitRunState
    /\ module \in {"native", "ocr"}
    /\ ocr_reader = "reader"
    /\ template = <<>>
    /\ paths = <<>>

SpecCanvas == InitAuthoring /\ [][NextCanvas]_vars

\* the trainer's document list, pages and zoom, in either module
SpecTrainer == InitAuthoring /\ [][NextTrainer]_vars

Next == NextRun

Spec == Init /\ [][Next]_vars


(***************************************************************************)
(* Claims about the geometry transform (specification SpecGeom).            *)
(***************************************************************************)
ArgRect == Rect(tv_args.x, tv_args.y, tv_args.w, tv_args.h)

Returned == tv_result.status = "returned"

QuarterTurn(rot) == rot \in {90, 270}

\* size of the other space's page: a quarter turn swaps the axes
SwapW(pw, ph, rot) == IF QuarterTurn(rot) THEN ph ELSE pw
SwapH(pw, ph, rot) == IF QuarterTurn(rot) THEN pw ELSE ph

visual_to_raw(v, vis_w, vis_h, rot) ==
    transform_visual_to_pdf_coords(v.x, v.y, v.width, v.height, vis_w, vis_h, rot)

\* the candidate inverse: the same function under the opposite rotation, given
\* the raw page size
raw_to_visual(r, raw_w, raw_h, rot) ==
    transform_visual_to_pdf_coords(r.x, r.y, r.width, r.height, raw_w, raw_h,
                                   (360 - rot) % 360)

\* C1: for every valid rotation, page size and rectangle inside the page, the
\* transform has an inverse: the returned raw rectangle lies inside the raw page
\* and raw_to_visual maps it back to the argument (left inverse), and every
\* rectangle r inside a raw page satisfies
\* visual_to_raw(raw_to_visual(r, rot), rot) = r with raw_to_visual(r) inside
\* the visual page (right inverse).
C1_TransformInvolutive ==
    (Returned /\ tv_args.rotation \in ValidRotations) =>
        LET rot == tv_args.rotation
            pw == tv_args.page_width
            ph == tv_args.page_height
            back == raw_to_visual(ArgRect, pw, ph, rot)
        IN /\ InsidePage(tv_result.rect, SwapW(pw, ph, rot), SwapH(pw, ph, rot))
           /\ raw_to_visual(tv_result.rect, SwapW(pw, ph, rot), SwapH(pw, ph, rot), rot)
                = ArgRect
           /\ InsidePage(back, SwapW(pw, ph, rot), SwapH(pw, ph, rot))
           /\ visual_to_raw(back, SwapW(pw, ph, rot), SwapH(pw, ph, rot), rot) = ArgRect

C1_Witness ==
    /\ Returned
    /\ tv_args.rotation = 270
    /\ tv_args.page_width # tv_args.page_height
    /\ tv_args.w > 0 /\ tv_args.h > tv_args.w /\ tv_args.x > 0

\* C2: the visual rectangle (30, 60, 200, 10) on a 400x500 page with rotation 90
\* is transformed to the raw rectangle (60, 170, 10, 200).
C2_Fixture ==
    (Returned /\ tv_args = FixtureArgs) => tv_result.rect = Rect(60, 170, 10, 200)

C2_Witness == Returned /\ tv_args = FixtureArgs

\* C3 as stated: for rotation 90, raw.y = page.width_raw - x - w where
\* page.width_raw is the page's visual HEIGHT.
C3_Original ==
    (Returned /\ tv_args.rotation = 90) =>
        tv_result.rect = Rect(tv_args.y, tv_args.page_height - tv_args.x - tv_args.w,
                              tv_args.h, tv_args.w)

\* C3 amended: for rotation 90, raw.x = visual.y,
\* raw.y = page_width - visual.x - visual.width, raw.width = visual.height,
\* raw.height = visual.width, where page_width is the page's VISUAL width
\* (equal to the raw-space height).
C3_Rotation90 ==
    (Returned /\ tv_args.rotation = 90) =>
        tv_result.rect = Rect(tv_args.y, tv_args.page_width - tv_args.x - tv_args.w,
                              tv_args.h, tv_args.w)

C3_Witness ==
    /\ Returned
    /\ tv_args.rotation = 90
    /\ tv_args.page_width # tv_args.page_height
    /\ tv_args.w # tv_args.h /\ tv_args.w > 0 /\ tv_args.h > 0

\* C4: a call with a rotation outside {0, 90, 180, 270} fails with an
\* InvalidRotation error and never returns the input rectangle unchanged.
C4_InvalidRotationFails ==
    (tv_result.status # "pending" /\ tv_args.rotation \notin ValidRotations) =>
        /\ tv_result.status = "InvalidRotation"
        /\ ~(Returned /\ tv_result.rect = ArgRect)

\* C30: for every valid rotation and every rectangle inside the visual page,
\* the returned rectangle has non-negative width and height, lies inside the raw
\* page (whose width and height are the visual ones, swapped for 90 and 270),
\* and has the area of the argument.
C30_RawRectWellFormed ==
    (Returned /\ tv_args.rotation \in ValidRotations
              /\ InsidePage(ArgRect, tv_args.page_width, tv_args.page_height)) =>
        LET r == tv_result.rect
            raw_w == IF tv_args.rotation \in {90, 270} THEN tv_args.page_height
                     ELSE tv_args.page_width
            raw_h == IF tv_args.rotation \in {90, 270} THEN tv_args.page_width
                     ELSE tv_args.page_height
        IN /\ r.width >= 0 /\ r.height >= 0
           /\ r.x >= 0 /\ r.y >= 0
           /\ r.x + r.width <= raw_w
           /\ r.y + r.height <= raw_h
           /\ r.width * r.height = tv_args.w * tv_args.h

C30_Witness ==
    /\ Returned
    /\ tv_args.rotation = 90
    /\ tv_args.page_width < tv_args.page_height
    /\ InsidePage(ArgRect, tv_args.page_width, tv_args.page_height)
    /\ tv_args.w * tv_args.h > 0
    /\ tv_args.y + tv_args.h = tv_args.page_height
    /\ tv_result.rect.x + tv_result.rect.width > tv_args.page_width

(***************************************************************************)
(* Claims about the matcher and the extraction run (specification Spec).    *)
(***************************************************************************)
Native == module = "native"

\* the matcher has just returned a match to run_extraction
MatchReturned == pc = "record" /\ match # NoMatch

\* the label's first Anchor child, first Value child, and the occurrence tried
A0 == CurLabel.anchors[1]
V0 == CurLabel.values[1]
P == primary_instances[cand_i]

\* the rectangle of V0's size at P + (V0 - A0)
OffsetRect(p) ==
    FitzRect(p.x + (V0.x - A0.x), p.y + (V0.y - A0.y),
             p.x + (V0.x - A0.x) + V0.width, p.y + (V0.y - A0.y) + V0.height)

ClipToPage(r, page) ==
    FitzRect(Max(r.x0, 0), Max(r.y0, 0),
             Min(r.x1, page.rect.width), Min(r.y1, page.rect.height))

\* C5 as stated: on acceptance the value rectangle is exactly the rectangle of
\* V0's size at P + (V0 - A0).
C5_Original ==
    (MatchReturned /\ Native) => match.value_rect = OffsetRect(P)

\* C5 amended: the value rectangle is the rectangle of V0's size at
\* P + (V0 - A0), with A0 the first Anchor and V0 the first Value child; the
\* native matcher intersects it with page.rect before reading the text and
\* returning it, the OCR matcher returns it converted from pixels to points
\* (x 72 / OCR_DPI). Further Value children change neither rectangle nor text:
\* a label with one or with several Value children gives the same match.
C5_ValueRect ==
    /\ (pc = "record" /\ Native /\ Len(CurLabel.anchors) = 1 /\ A0.name # <<>>
        /\ Len(CurLabel.values) >= 1
        /\ CurDoc.pages = <<Page(<<Primary(100, 100), V1>>, {})>>)
         => /\ match.value_rect = FitzRect(175, 100, 300, 125)
            /\ match.value_text = <<"v1">>
    /\ MatchReturned =>
        IF Native
        THEN /\ match.value_rect = ClipToPage(OffsetRect(P), CurPage)
             /\ match.value_text = extract_value_text(CurPage, match.value_rect)
        ELSE \E k \in 1..Len(CurPage.runs) :
                LET r == OffsetRect(CurPage.runs[k])
                IN /\ match.anchor_text = CurPage.runs[k].text
                   /\ match.value_rect =
                        FitzRect((r.x0 * 72) \div OCR_DPI, (r.y0 * 72) \div OCR_DPI,
                                 (r.x1 * 72) \div OCR_DPI, (r.y1 * 72) \div OCR_DPI)

\* a match whose rectangle was clipped at the page edge, for a label with two
\* Value children
C5_Witness ==
    /\ MatchReturned /\ Native
    /\ Len(CurLabel.values) >= 2
    /\ OffsetRect(P).x1 > CurPage.rect.width
    /\ match.value_text = <<"v3">>

SecondaryNear(page, p, anchor) ==
    \E k \in 1..Len(page.runs) :
        /\ IsPrefix(anchor.name, page.runs[k].text)
        /\ Abs(page.runs[k].x - p.x - (anchor.x - A0.x)) <= POSITION_TOLERANCE
        /\ Abs(page.runs[k].y - p.y - (anchor.y - A0.y)) <= POSITION_TOLERANCE

\* C6: with a secondary anchor, a returned match is the value of an occurrence
\* P of the primary anchor whose secondary anchors all lie at their learned
\* offsets from P within POSITION_TOLERANCE, in either locator order; on a page
\* with two occurrences the text returned is the one beside P.
C6_Disambiguation ==
    (MatchReturned /\ Native /\ Len(CurLabel.anchors) >= 2) =>
        /\ \A i \in 2..Len(CurLabel.anchors) :
              SecondaryNear(CurPage, P, CurLabel.anchors[i])
        /\ CurPage \in DisambiguationPages =>
              match.value_text = IF P.y = 300 THEN <<"v2">> ELSE <<"v1">>

\* the first occurrence in locator order was rejected, the second returned
C6_Witness ==
    /\ MatchReturned /\ Native /\ Len(CurLabel.anchors) >= 2
    /\ CurPage \in DisambiguationPages
    /\ cand_i = 2
    /\ ~SecondaryNear(CurPage, primary_instances[1], CurLabel.anchors[2])
    /\ match.value_text = <<"v2">>

\* a one-page document with one occurrence of the primary anchor, one of the
\* secondary anchor and text in the value region, matched by a label with
\* exactly one secondary anchor
ToleranceCase ==
    /\ pc = "record" /\ Native
    /\ Len(CurLabel.anchors) = 2 /\ Len(CurLabel.values) >= 1
    /\ Len(CurDoc.pages) = 1
    /\ CurDoc.pages[1].loads
    /\ Len(CurDoc.pages[1].runs) = 3
    /\ CurDoc.pages[1].runs[1] = Primary(100, 100)
    /\ CurDoc.pages[1].runs[2].text = <<"Name:">>
    /\ CurDoc.pages[1].runs[3] = V1

\* distance between actual and learned offset of the secondary anchor
DxDiff == Abs(CurDoc.pages[1].runs[2].x - 100 - (CurLabel.anchors[2].x - A0.x))
DyDiff == Abs(CurDoc.pages[1].runs[2].y - 100 - (CurLabel.anchors[2].y - A0.y))

\* C7: a secondary anchor whose offset differs from the learned one by exactly
\* 50 on one axis (the other within tolerance) is accepted; by 51 on either
\* axis it is rejected.
C7_ToleranceBoundary ==
    ToleranceCase =>
        /\ (Max(DxDiff, DyDiff) = 50) => (match # NoMatch /\ match.value_text = <<"v1">>)
        /\ (DxDiff = 51 \/ DyDiff = 51) => match = NoMatch

C7_Witness ==
    ToleranceCase /\ DxDiff = 50 /\ DyDiff = 0 /\ match # NoMatch

\* C8: an accepted occurrence whose value region yields no text is not
\* returned: no returned match has empty text; a second candidate on the page
\* is tried (native), and a two-page document whose first page gives an accepted
\* occurrence with empty text and whose second page gives text returns the match
\* of the second page.
C8_EmptyMatchFallthrough ==
    /\ MatchReturned => match.value_text # <<>>
    /\ (pc = "record" /\ Len(CurLabel.anchors) = 1 /\ Len(CurLabel.values) >= 1
        /\ A0.name # <<>> /\ (Native \/ ocr_reader = "reader")
        /\ CurDoc.pages = <<Page(<<Primary(100, 100)>>, {}),
                            Page(<<Primary(100, 100), V1>>, {})>>)
         => (match # NoMatch /\ match.page = 1 /\ match.value_text = <<"v1">>)
    /\ (pc = "record" /\ Native /\ Len(CurLabel.anchors) = 1
        /\ Len(CurLabel.values) >= 1 /\ A0.name # <<>>
        /\ CurDoc.pages = <<Page(<<Primary(100, 100), Primary(100, 300), V2>>, {})>>)
         => (match # NoMatch /\ cand_i = 2 /\ match.value_text = <<"v2">>)

C8_Witness ==
    /\ MatchReturned
    /\ Len(CurLabel.anchors) = 1
    /\ CurDoc.pages = <<Page(<<Primary(100, 100)>>, {}),
                        Page(<<Primary(100, 100), V1>>, {})>>
    /\ match.page = 1

\* the occurrences of the primary anchor on a page, in locator order
Candidates(page) ==
    IF page.loads THEN find_primary_instances(page, A0.name) ELSE <<>>

\* an occurrence that is accepted and yields non-empty text
AcceptedWithText(page, p) ==
    /\ all_secondary_match(page, p, CurLabel.anchors)
    /\ extract_value_text(page, value_rect_of(page, p, A0, V0)) # <<>>

C9_Earliest ==
    (pc = "record" /\ Native /\ ~label_unusable(CurLabel)) =>
        IF match # NoMatch
        THEN /\ match.page = page_idx
             /\ primary_instances = Candidates(CurPage)
             /\ AcceptedWithText(CurPage, P)
             /\ \A k \in 1..(cand_i - 1) :
                   ~AcceptedWithText(CurPage, primary_instances[k])
             /\ \A j \in 1..match.page :
                   \A k \in 1..Len(Candidates(CurDoc.pages[j])) :
                      ~AcceptedWithText(CurDoc.pages[j], Candidates(CurDoc.pages[j])[k])
        ELSE \A j \in 1..Len(CurDoc.pages) :
                \A k \in 1..Len(Candidates(CurDoc.pages[j])) :
                   ~AcceptedWithText(CurDoc.pages[j], Candidates(CurDoc.pages[j])[k])

\* a step of the matcher keeps the page or moves to the next one, and candidates
\* are taken one after the other; after the return nothing is searched
C9_Step ==
    /\ (pc \in {"page", "cand"}) =>
          /\ page_idx' \in {page_idx, page_idx + 1}
          /\ (page_idx' = page_idx /\ pc = "cand") =>
                (primary_instances' = primary_instances /\ cand_i' \in {cand_i, cand_i + 1})
          /\ pc' = "record" => (page_idx' = page_idx /\ cand_i' = cand_i)
    /\ (pc = "find" /\ pc' = "page") => page_idx' = 0
    /\ (pc = "page" /\ pc' = "cand") => cand_i' = 1
    /\ pc = "record" => UNCHANGED matcher_vars

\* C9: pages are visited in increasing index and candidates in locator order;
\* the returned match is the earliest accepted candidate with non-empty text,
\* and nothing is searched after the return.
C9_FirstMatchWins == [](C9_Earliest) /\ [][C9_Step]_vars

\* returned from the second candidate of the second page
C9_Witness ==
    /\ MatchReturned /\ Native
    /\ match.page = 1 /\ cand_i = 2
    /\ Len(Candidates(CurDoc.pages[1])) >= 1

\* the run has ended (its final message box was shown)
RunEnded == pc = "idle" /\ message \in {"Complete", "Extraction failed"}

\* C10: a document that cannot be opened never aborts the run: every document
\* that opens has its row, in input order.
C10_OrchestratorResilience ==
    RunEnded =>
        /\ Len(extraction_results) = Cardinality({i \in 1..Len(paths) : paths[i].opens})
        /\ \A i \in 1..Len(paths) :
              paths[i].opens =>
                 \E k \in 1..Len(extraction_results) :
                    extraction_results[k][FilenameColumn] = paths[i].filename


\* C11: a second run on the same template and documents ends with the result
\* rows, the table and the audit records that the first run ended with; nothing
\* is carried over or accumulated.
C11_Idempotent ==
    (pc = "idle" /\ run_count >= 2) => shown = before_run

\* a second run that ended with two rows and an audit record
C11_Witness ==
    /\ pc = "idle" /\ run_count = 2 /\ message = "Complete"
    /\ Len(extraction_results) >= 2
    /\ extraction_screenshots # <<>>

\* no page of the document yields an accepted occurrence with non-empty text
NoPageMatches(doc, info) ==
    IF Native
    THEN \/ label_unusable(info)
         \/ \A j \in 1..Len(doc.pages) :
               doc.pages[j].loads =>
                  LET found == find_primary_instances(doc.pages[j], info.anchors[1].name)
                  IN \A k \in 1..Len(found) :
                        \/ ~all_secondary_match(doc.pages[j], found[k], info.anchors)
                        \/ extract_value_text(doc.pages[j],
                              value_rect_of(doc.pages[j], found[k],
                                            info.anchors[1], info.values[1])) = <<>>
    ELSE \/ label_unusable_ocr(info)
         \/ \A j \in 1..Len(doc.pages) :
               ocr_page_match(doc.pages[j], info, j - 1) = NoMatch

\* C12: for every (label, document) pair without an accepted match with text,
\* the document's row holds the empty string in the label's _Anchor and _Value
\* columns, and the run reports no error for it: it ends "Complete" when every
\* document opens.
C12_NoMatchIsEmpty ==
    /\ \A k \in 1..Len(extraction_results) :
          \A l \in 1..Len(all_labels) :
             NoPageMatches(paths[k], all_labels[l]) =>
                /\ AnchorColumn(all_labels[l].name) \in DOMAIN extraction_results[k]
                /\ ValueColumn(all_labels[l].name) \in DOMAIN extraction_results[k]
                /\ extraction_results[k][AnchorColumn(all_labels[l].name)] = <<>>
                /\ extraction_results[k][ValueColumn(all_labels[l].name)] = <<>>
                /\ result_table.rows[k][2 * l] = <<>>
                /\ result_table.rows[k][2 * l + 1] = <<>>
    /\ (RunEnded /\ \A i \in 1..Len(paths) : paths[i].opens) => message = "Complete"

\* a finished row with one label matched and one usable label without a match
C12_Witness ==
    /\ RunEnded /\ message = "Complete" /\ Native
    /\ \E k \in 1..Len(extraction_results) :
          /\ \E l \in 1..Len(all_labels) :
                /\ ~label_unusable(all_labels[l])
                /\ NoPageMatches(paths[k], all_labels[l])
          /\ \E l \in 1..Len(all_labels) : ~NoPageMatches(paths[k], all_labels[l])

AllOpen == \A i \in 1..Len(paths) : paths[i].opens

LabelNames == {template[t].name : t \in 1..Len(template)}

\* C13: after a run over documents that all open, the table has one row per
\* document, in input order, and every row has the filename column plus an
\* _Anchor and a _Value column for every label of the template.
C13_TableShape ==
    (RunEnded /\ AllOpen) =>
        /\ Len(extraction_results) = Len(paths)
        /\ Len(result_table.rows) = Len(paths)
        /\ Len(result_table.columns) = 1 + 2 * Cardinality(LabelNames)
        /\ result_table.columns[1] = <<"PDF Filename">>
        /\ \A n \in LabelNames :
              \E c \in 1..Len(result_table.columns) :
                 /\ result_table.columns[c] = <<n, "_Anchor">>
                 /\ c < Len(result_table.columns)
                 /\ result_table.columns[c + 1] = <<n, "_Value">>
        /\ \A i \in 1..Len(paths) :
              /\ extraction_results[i][<<"PDF Filename">>] = paths[i].filename
              /\ DOMAIN extraction_results[i] =
                    {<<"PDF Filename">>}
                    \cup {<<n, "_Anchor">> : n \in LabelNames}
                    \cup {<<n, "_Value">> : n \in LabelNames}
              /\ Len(result_table.rows[i]) = Len(result_table.columns)
              /\ result_table.rows[i][1] = paths[i].filename

\* three documents and two labels
C13_Witness ==
    /\ RunEnded /\ AllOpen
    /\ Len(paths) = 3 /\ Cardinality(LabelNames) = 2
    /\ extraction_results[3][<<"PDF Filename">>] = <<"doc", "3">>

NoAnchorOrNoValue(info) == info.anchors = <<>> \/ info.values = <<>>

\* C14: a label without an Anchor child or without a Value child is skipped:
\* the matcher returns no match for it without searching a page, no error ends
\* the run, and the other labels of the template are still extracted.
C14_UnusableLabelSkipped ==
    /\ pc \in {"page", "cand"} => ~NoAnchorOrNoValue(CurLabel)
    /\ (pc = "record" /\ NoAnchorOrNoValue(CurLabel)) =>
          /\ match = NoMatch
          /\ page_idx = 0 /\ primary_instances = <<>> /\ cand_i = 0
    /\ (RunEnded /\ AllOpen) => message = "Complete"
    /\ \A k \in 1..Len(extraction_results) :
          \A l \in 1..Len(all_labels) :
             ~NoPageMatches(paths[k], all_labels[l]) =>
                extraction_results[k][ValueColumn(all_labels[l].name)] # <<>>

\* a finished row of a template with a label without Anchor or Value child and
\* another label that was extracted
C14_Witness ==
    /\ RunEnded /\ message = "Complete"
    /\ \E l \in 1..Len(all_labels) : NoAnchorOrNoValue(all_labels[l])
    /\ \E k \in 1..Len(extraction_results) :
          \E l \in 1..Len(all_labels) :
             extraction_results[k][ValueColumn(all_labels[l].name)] # <<>>

\* C15: when get_ocr_reader returns None during an OCR extraction run, the run
\* fails as a whole; it never completes normally.
C15_OcrUnavailableIsFatal ==
    (module = "ocr" /\ ocr_reader = "None" /\ pc = "idle" /\ run_count > 0)
        => message # "Complete"

HasPrefix(text, needle) ==
    Len(needle) <= Len(text) /\ SubSeq(text, 1, Len(needle)) = needle

\* occurrences on the current page of the full anchor text, and of its first word
FullHits == SelectSeq(CurPage.runs, LAMBDA r : HasPrefix(r.text, A0.name))
FirstWordHits == SelectSeq(CurPage.runs, LAMBDA r : HasPrefix(r.text, <<A0.name[1]>>))

\* C18: on each page the first word of the primary anchor text is searched if
\* and only if the full text has no occurrence on the page: the candidates are
\* the occurrences of the full text when there are any, else those of the first
\* word.
C18_FirstWordFallback ==
    (pc = "cand" /\ Native) =>
        /\ FullHits # <<>> => primary_instances = FullHits
        /\ FullHits = <<>> => primary_instances = FirstWordHits

\* a page where the first word alone occurs before the full text
C18_Witness ==
    /\ pc = "cand" /\ Native
    /\ FullHits # <<>>
    /\ Len(FirstWordHits) > Len(FullHits)
    /\ FirstWordHits[1] # FullHits[1]

\* every secondary anchor has an occurrence at its learned offset from p
Accepted(p) ==
    \A i \in 2..Len(CurLabel.anchors) : SecondaryNear(CurPage, p, CurLabel.anchors[i])

\* C19: a candidate P is accepted if and only if every secondary anchor has an
\* occurrence within tolerance of its learned offset (always, when there is no
\* secondary anchor): an accepted P with text in its value rectangle is returned,
\* a P that is not accepted is never returned and the next candidate is taken.
C19_Step ==
    (pc = "cand" /\ cand_i <= Len(primary_instances)) =>
        LET text == extract_value_text(CurPage, ClipToPage(OffsetRect(P), CurPage))
        IN /\ (pc' = "record") <=> (Accepted(P) /\ text # <<>>)
           /\ pc' = "record" => (match'.value_text = text /\ match'.page = page_idx)
           /\ pc' # "record" =>
                 /\ pc' = "cand" /\ cand_i' = cand_i + 1
                 /\ UNCHANGED <<match, page_idx, primary_instances>>

raw_width(page) == IF page.rotation \in {90, 270} THEN page.rect.height ELSE page.rect.width
raw_height(page) == IF page.rotation \in {90, 270} THEN page.rect.width ELSE page.rect.height

\* C20: the value rectangle of every returned match is normalized, non-empty
\* and contained in the page's raw-space bounds, for pages of every rotation.
C20_RectInRawBounds ==
    (MatchReturned /\ Native) =>
        /\ match.value_rect.x0 < match.value_rect.x1
        /\ match.value_rect.y0 < match.value_rect.y1
        /\ match.value_rect.x0 >= 0 /\ match.value_rect.y0 >= 0
        /\ match.value_rect.x1 <= raw_width(CurPage)
        /\ match.value_rect.y1 <= raw_height(CurPage)

\* the value rectangle grown by 10 on every side, cut to the page
ExpandedRect(r, page) ==
    ClipToPage(FitzRect(r.x0 - 10, r.y0 - 10, r.x1 + 10, r.y1 + 10), page)

\* the text of a returned native match is the first non-empty one of: the text
\* clipped to the value rectangle, the text clipped to the expanded rectangle,
\* the block-level text of the value rectangle
C21_Returned ==
    (MatchReturned /\ Native) =>
        LET r == match.value_rect
            clip_text == get_text(CurPage, r)
            expanded_text == get_text(CurPage, ExpandedRect(r, CurPage))
            block_text == get_blocks_text(CurPage, r)
        IN /\ r.x0 < r.x1 /\ r.y0 < r.y1
           /\ match.value_text # <<>>
           /\ match.value_text =
                 IF clip_text # <<>> THEN clip_text
                 ELSE IF expanded_text # <<>> THEN expanded_text
                 ELSE block_text

\* an occurrence whose value rectangle is empty is never returned
C21_Step ==
    (pc = "cand" /\ Native /\ cand_i <= Len(primary_instances)
        /\ LET r == ClipToPage(OffsetRect(P), CurPage)
           IN r.x0 >= r.x1 \/ r.y0 >= r.y1)
    => pc' # "record"

\* C21: native text extraction tries the value rectangle, then the rectangle
\* expanded by 10 on every side (cut to the page), then the block-level text,
\* in this order, and stops at the first non-empty result; an empty value
\* rectangle yields no text at all.
C21_TextSourceOrder == [](C21_Returned) /\ [][C21_Step]_vars

\* the text came from the expanded rectangle although the value rectangle
\* holds an image block
C21_Witness ==
    /\ MatchReturned /\ Native
    /\ get_text(CurPage, match.value_rect) = <<>>
    /\ match.value_text = <<"near">>
    /\ get_blocks_text(CurPage, match.value_rect) # <<>>

\* OCR: the tokens of a page that match the anchor text, in detection order
OcrMatchingTokens(page, needle) ==
    SelectSeq(page.runs,
              LAMBDA r : r.text # <<>> /\ (Contains(r.text, needle) \/ Contains(needle, r.text)))

\* OCR: the text read from the value region placed relative to a token
OcrTokenText(page, token) ==
    ocr_cropped_region(page, Rect(token.x + (V0.x - A0.x), token.y + (V0.y - A0.y),
                                  V0.width, V0.height))

\* C22: in the OCR matcher every token of a page that matches the primary
\* anchor text is a candidate, tried in detection order: when the first matching
\* token of the first page yields an empty value text and a later matching
\* token of that page yields a non-empty one, the match of the later token is
\* returned.
C22_LaterTokenTried ==
    (pc = "record" /\ module = "ocr" /\ ocr_reader = "reader"
        /\ ~label_unusable_ocr(CurLabel) /\ CurDoc.pages[1].loads) =>
        LET page == CurDoc.pages[1]
            tokens == OcrMatchingTokens(page, anchor_search_text(A0))
        IN \A k \in 2..Len(tokens) :
              (/\ \A j \in 1..(k - 1) : OcrTokenText(page, tokens[j]) = <<>>
               /\ OcrTokenText(page, tokens[k]) # <<>>)
              => /\ match # NoMatch
                 /\ match.page = 0
                 /\ match.value_text = OcrTokenText(page, tokens[k])

\* OCR: some token matching a secondary anchor lies at the anchor's learned
\* offset from the token, within POSITION_TOLERANCE
OcrSecondaryNear(page, token, anchor) ==
    \E k \in 1..Len(page.runs) :
        /\ page.runs[k].text # <<>>
        /\ \/ Contains(page.runs[k].text, anchor_search_text(anchor))
           \/ Contains(anchor_search_text(anchor), page.runs[k].text)
        /\ Abs(page.runs[k].x - token.x - (anchor.x - A0.x)) <= POSITION_TOLERANCE
        /\ Abs(page.runs[k].y - token.y - (anchor.y - A0.y)) <= POSITION_TOLERANCE

\* C23: the OCR matcher disambiguates with secondary anchors: a match is
\* returned for a token of the primary anchor only if every secondary anchor of
\* the label has a token at its learned offset from it, within
\* POSITION_TOLERANCE.
C23_OcrMultiAnchor ==
    (MatchReturned /\ module = "ocr" /\ Len(CurLabel.anchors) >= 2) =>
        \E t \in 1..Len(OcrMatchingTokens(CurPage, anchor_search_text(A0))) :
            LET token == OcrMatchingTokens(CurPage, anchor_search_text(A0))[t]
            IN /\ match.value_text = OcrTokenText(CurPage, token)
               /\ \A i \in 2..Len(CurLabel.anchors) :
                     OcrSecondaryNear(CurPage, token, CurLabel.anchors[i])

\* index of the first label box of the template that carries a name
FirstSeen(name) ==
    CHOOSE i \in 1..Len(template) :
        /\ template[i].name = name
        /\ \A j \in 1..(i - 1) : template[j].name # name

\* all_labels holds each label name of the template once, in first-seen order,
\* with the Anchor and Value children of the first label box of that name
C26_Labels ==
    /\ {all_labels[k].name : k \in 1..Len(all_labels)} = LabelNames
    /\ \A k \in 1..Len(all_labels) : \A m \in 1..Len(all_labels) :
          /\ (k # m => all_labels[k].name # all_labels[m].name)
          /\ (k < m => FirstSeen(all_labels[k].name) < FirstSeen(all_labels[m].name))
    /\ \A k \in 1..Len(all_labels) :
          LET first == template[FirstSeen(all_labels[k].name)]
          IN /\ all_labels[k].anchors =
                   SelectSeq(first.children, LAMBDA b : b.box_type = "anchor")
             /\ all_labels[k].values =
                   SelectSeq(first.children, LAMBDA b : b.box_type = "value")

\* the matcher is entered for the first entry when a document is opened and
\* for the next entry after each return; the document is left after the last
C26_Step ==
    /\ pc' = "find" =>
          \/ pc = "open" /\ label_i' = 1 /\ doc_i' = doc_i
          \/ pc = "record" /\ label_i' = label_i + 1 /\ doc_i' = doc_i
                           /\ label_i' <= Len(all_labels)
    /\ pc \in {"find", "page", "cand"} =>
          (pc' # "find" /\ label_i' = label_i /\ doc_i' = doc_i)
    /\ (pc = "record" /\ pc' # "find") =>
          (pc' = "open" /\ label_i = Len(all_labels) /\ doc_i' = doc_i + 1)

\* C26: for each document the matcher is invoked exactly once per distinct
\* label name, in first-seen order; a later label box with a name already seen
\* contributes no column and is never searched.
C26_OncePerLabelName == [](C26_Labels) /\ [][C26_Step]_vars

\* the second document of a batch is searched with a template that holds two
\* different label boxes of one name
C26_Witness ==
    /\ pc = "record" /\ doc_i = 2 /\ label_i = 1
    /\ Len(template) = 2
    /\ template[1].name = template[2].name
    /\ template[1] # template[2]
    /\ Len(all_labels) = 1

(***************************************************************************)
(* Claims about template authoring (specification SpecCanvas).              *)
(***************************************************************************)
\* box id hangs in the tree under canvas.boxes
RECURSIVE Attached(_, _)
Attached(id, depth) ==
    \/ \E i \in 1..Len(boxes) : boxes[i] = id
    \/ /\ depth > 0
       /\ objects[id].parent # 0
       /\ \E k \in 1..Len(objects[objects[id].parent].children) :
             objects[objects[id].parent].children[k] = id
       /\ Attached(objects[id].parent, depth - 1)

TreeBoxes == {id \in 1..Len(objects) : Attached(id, Len(objects))}

ParentsOf(id) ==
    {q \in 1..Len(objects) :
        \E k \in 1..Len(objects[q].children) : objects[q].children[k] = id}

\* C16: after any sequence of canvas operations only Label boxes have children,
\* and every Anchor or Value box of the tree is a child of exactly one Label box.
C16_BoxTree ==
    \A id \in TreeBoxes :
        /\ objects[id].children # <<>> => objects[id].box_type = "label"
        /\ objects[id].box_type \in {"anchor", "value"} =>
              /\ Cardinality(ParentsOf(id)) = 1
              /\ \A q \in ParentsOf(id) : objects[q].box_type = "label"

\* C28: whenever active_parent_box is set, it is one of the boxes in
\* canvas.boxes (so a sub-box added to it hangs under canvas.boxes); deleting
\* the selected Label box does not leave it as the active parent.
C28_ActiveParentPresent ==
    active_parent_box # 0 =>
        \E i \in 1..Len(boxes) : boxes[i] = active_parent_box

(***************************************************************************)
(* Claims about the trainer's document list, pages, zoom and saved          *)
(* template (specification SpecTrainer).                                    *)
(***************************************************************************)
\* the current document and page exist, or nothing is loaded
InRange(t) ==
    \/ t.loaded_pdfs = <<>> /\ t.current_pdf_index = -1
    \/ /\ 0 <= t.current_pdf_index
       /\ t.current_pdf_index < Len(t.loaded_pdfs)
       /\ 0 <= t.current_page_index
       /\ t.current_page_index < t.loaded_pdfs[t.current_pdf_index + 1].pages

C29_InRangeBetweenHandlers == InRange(trainer)

\* C27: every box kept in page_boxes under a key (pdf_idx, page_idx) was drawn
\* on the document that is now at position pdf_idx of loaded_pdfs: removing a
\* PDF deletes its boxes and leaves no box attached to another document or to
\* no document.
C27_BoxesFollowDocument ==
    \A e \in 1..Len(trainer.page_boxes) :
        \A b \in 1..Len(trainer.page_boxes[e].boxes) :
            LET pdf_idx == trainer.page_boxes[e].key[1]
            IN /\ pdf_idx < Len(trainer.loaded_pdfs)
               /\ trainer.drawn[trainer.page_boxes[e].boxes[b].id] =
                     trainer.loaded_pdfs[pdf_idx + 1].doc

\* a rectangle of the canvas in document units (scale 1)
DocumentRect(rect, scale) == ScaleRect(rect, QDiv(Q(1, 1), scale))

\* a zoom operation on a displayed page keeps every box of the page, with the
\* document rectangle it had, drawn at the new zoom scale
C25_Step ==
    (/\ trainer.zoomed' # trainer.zoomed
     /\ InRange(trainer) /\ trainer.current_pdf_index >= 0
     /\ trainer.scale_factor = trainer.zoom_scale)
    => /\ Len(trainer.canvas_boxes') = Len(trainer.canvas_boxes)
       /\ \A i \in 1..Len(trainer.canvas_boxes) :
             /\ DocumentRect(trainer.canvas_boxes[i].rect', trainer.scale_factor')
                  = DocumentRect(trainer.canvas_boxes[i].rect, trainer.scale_factor)
             /\ trainer.canvas_boxes[i].rect' =
                  ScaleRect(DocumentRect(trainer.canvas_boxes[i].rect,
                                         trainer.scale_factor),
                            trainer.zoom_scale')

\* C25: zooming preserves box geometry: after zoom_in, zoom_out or zoom_reset
\* the document-space rectangle of every box on the current page is the same as
\* before, and its canvas rectangle is that rectangle multiplied by the current
\* zoom scale.
C25_ZoomKeepsGeometry == [][C25_Step]_vars

\* the document rectangle of the box with this id, as page_boxes holds it
KeptRects(t, id) ==
    UNION {{t.page_boxes[e].boxes[b].rect :
               b \in {k \in 1..Len(t.page_boxes[e].boxes) :
                         t.page_boxes[e].boxes[k].id = id}} :
           e \in 1..Len(t.page_boxes)}

\* save_template stores, for every box, visual_to_raw of its document rectangle
C24_Step ==
    trainer.saved' # trainer.saved =>
        \A r \in 1..Len(trainer.saved') :
            \E doc_rect \in KeptRects(trainer', trainer.saved[r].id') :
                trainer.saved[r].rect' = visual_to_raw(doc_rect, Q(400, 1), Q(500, 1), 0)

\* C24: the rectangle persisted for a box by save_template is visual_to_raw of
\* the box's rectangle in document units (scale 1), at every zoom level at which
\* the template is saved.
C24_SavedAtScaleOne == [][C24_Step]_vars

=============================================================================
